---- MODULE Spec2Model ----
(***************************************************************************)
(* A model of the copilot framework's modification engines:                *)
(*   - createAgenticTool(...).execute, the action-registry engine          *)
(*     (agentic-framework), one call followed from its arguments to its    *)
(*     result, one action per await point;                                 *)
(*   - ModificationService.modifyNutritionDay / modifyWorkoutWeek, the     *)
(*     snapshot-then-update persistence cycle, run by several concurrent   *)
(*     callers against one store, and one call on any stored entity;       *)
(*   - createCrudTool(...).execute, the CRUD tool's single operation and   *)
(*     batch;                                                              *)
(*   - the pure helpers (fuzzy matching, getEffectiveUserId, safeExecute); *)
(*   - recalculateMacrosForDay, the macro recalculator.                    *)
(***************************************************************************)
EXTENDS Integers, Sequences, FiniteSets, TLC

(***************************************************************************)
(* Bounds                                                                  *)
(***************************************************************************)
\* Longest batch array handed to execute.
MaxBatch == 3

(***************************************************************************)
(* Agentic engine: the registry, the schemas and the handlers of a tool.   *)
(* The handlers are the integrator's; the ones below cover the behaviours  *)
(* the AgenticActionHandler contract allows: mutate in place and return    *)
(* nothing, return a new entity, return null, throw before or after a      *)
(* mutation.                                                               *)
(***************************************************************************)
\* Object.keys(actions)
ActionNames == {"set_a", "set_b", "reset", "boom", "dirty"}

\* Members every plain object inherits from Object.prototype: actions[name]
\* finds them although the registry does not register them.
InheritedNames == {"toString"}

\* const handler = actions[mod.action]
Lookup(a) ==
  IF a \in ActionNames THEN "handler"
  ELSE IF a \in InheritedNames THEN "inherited"
  ELSE "undefined"

\* handler.changesSchema is defined
HasChangesSchema(a) == a \in {"set_a", "dirty"}

\* handler.targetSchema.safeParse(mod.target): "t+" carries a key the schema
\* strips, "bad" does not satisfy the schema.
TargetParse(t) ==
  [success |-> t \in {"t", "t+"}, data |-> IF t = "t+" THEN "t" ELSE t]

\* handler.changesSchema.safeParse(mod.changes): "v1+" carries a key the
\* schema strips, "bad" does not satisfy the schema.
ChangesParse(c) ==
  [success |-> c \in {"v1", "v2", "v1+"}, data |-> IF c = "v1+" THEN "v1" ELSE c]

\* The field value a changes payload carries (9: whatever an unvalidated
\* payload holds).
Val(c) == CASE c = "v1" -> 1 [] c = "v1+" -> 1 [] c = "v2" -> 2 [] OTHER -> 9

\* A handler adds the payload's value to the field.
NewVal_Additive(old, c) == IF c = "undef" THEN old ELSE old + Val(c)

\* A handler writes the payload's value; without a payload it leaves the field.
NewVal(old, c) == IF c = "undef" THEN old ELSE Val(c)

\* handler.execute(currentEntity, {target, changes, newData}, context) on the
\* heap h with currentEntity = cur: the heap it leaves and how it settles.
HandlerRun(a, h, cur, c) ==
  CASE a = "set_a" ->  \* entity.a = changes.v; return;
         [heap |-> [h EXCEPT ![cur].a = NewVal(@, c)], kind |-> "undefined", ref |-> 0, msg |-> ""]
    [] a = "set_b" ->  \* return { ...entity, b: changes.v };
         [heap |-> Append(h, [h[cur] EXCEPT !.b = NewVal(@, c)]), kind |-> "entity",
          ref |-> Len(h) + 1, msg |-> ""]
    [] a = "reset" ->  \* entity.a = 0; return null;
         [heap |-> [h EXCEPT ![cur].a = 0], kind |-> "null", ref |-> 0, msg |-> ""]
    [] a = "boom" ->   \* throw new Error('bad weight');
         [heap |-> h, kind |-> "throw", ref |-> 0, msg |-> "bad weight"]
    [] OTHER ->        \* "dirty": entity.b = changes.v; throw new Error('late failure');
         [heap |-> [h EXCEPT ![cur].b = NewVal(@, c)], kind |-> "throw", ref |-> 0,
          msg |-> "late failure"]

(***************************************************************************)
(* Inputs of execute.                                                      *)
(***************************************************************************)
Item(a, t, c) == [action |-> a, target |-> t, changes |-> c]

\* The modification items the batches are built from.
Items ==
  { Item("set_a", "t", "v1"), Item("set_a", "t+", "v2"), Item("set_a", "t", "v1+"),
    Item("set_b", "t", "v1"), Item("reset", "t", "undef"),
    Item("set_a", "t", "undef"), Item("set_b", "t", "v1+"),
    Item("nope", "t", "v1"), Item("toString", "t", "v1"),
    Item("set_a", "bad", "v1"), Item("set_a", "t", "bad"),
    Item("boom", "t", "undef"), Item("dirty", "t", "v2") }

RECURSIVE SeqsUpTo(_, _)
SeqsUpTo(S, n) ==
  IF n = 0 THEN {<<>>}
  ELSE LET shorter == SeqsUpTo(S, n - 1)
       IN  shorter \cup {Append(s, x) : s \in {q \in shorter : Len(q) = n - 1}, x \in S}

NoItem == Item("none", "undef", "undef")

\* args: the top-level action/target/changes (action "none": args.action is
\* undefined) and args.batch (present = FALSE: undefined), with the
\* batchSupported the tool was created with (the default is true).
ArgsSet ==
  {[top |-> NoItem, batchPresent |-> TRUE, batch |-> b, batchSupported |-> TRUE] :
      b \in SeqsUpTo(Items, MaxBatch)}
  \cup {[top |-> Item("set_a", "t", "v2"), batchPresent |-> TRUE, batch |-> b,
         batchSupported |-> TRUE] : b \in SeqsUpTo(Items, 1)}
  \cup {[top |-> i, batchPresent |-> FALSE, batch |-> <<>>, batchSupported |-> TRUE] :
          i \in Items \cup {NoItem}}
  \cup {[top |-> i, batchPresent |-> TRUE, batch |-> b, batchSupported |-> FALSE] :
          i \in {NoItem, Item("set_a", "t", "v2")}, b \in SeqsUpTo(Items, 2)}

\* The entity resolveEntity finds.
InitialContent == [a |-> 0, b |-> 0, hooked |-> FALSE]

(***************************************************************************)
(* State                                                                   *)
(***************************************************************************)
VARIABLES
  args,            \* execute's arguments
  pc,              \* the await point execute is at
  heap,            \* the entity objects, by reference
  entity,          \* const entity (0: not resolved)
  currentEntity,   \* let currentEntity
  modifications,   \* const modifications
  idx,             \* the for-of loop's position in modifications, from 1
  results,         \* const results: string[]
  inflight,        \* handler.execute calls awaited and not yet settled
  calls,           \* every handler.execute call: item index, entity, params
  events,          \* the collaborators called, in order
  saved,           \* what saveEntity persisted: <<>> or <<content>>
  env,             \* what resolveEntity and validateEntity answered
  ret              \* how execute completed

agVars == <<args, pc, heap, entity, currentEntity, modifications, idx, results,
            inflight, calls, events, saved, env, ret>>

(***************************************************************************)
(* response-helpers                                                        *)
(***************************************************************************)
NoUpdated == [modificationsApplied |-> 0 - 1, errors |-> 0 - 1]

\* successResult(message, updated): message is results.join('\n'), kept as
\* the list of lines it joins.
successResult(lines, updated) ==
  [status |-> "returned", success |-> TRUE, message |-> lines, updated |-> updated,
   error |-> ""]

\* errorResult(error)
errorResult(error) ==
  [status |-> "returned", success |-> FALSE, message |-> <<"Modification failed">>,
   updated |-> NoUpdated, error |-> error]

\* execute's promise rejects with the collaborator's exception.
Rejected(error) ==
  [status |-> "threw", success |-> FALSE, message |-> <<>>, updated |-> NoUpdated,
   error |-> error]

Pending ==
  [status |-> "pending", success |-> FALSE, message |-> <<>>, updated |-> NoUpdated,
   error |-> ""]

\* One outcome line: its leading mark, and the rest of its text.
OkLine(a) == <<"OK", a, "completed">>
ErrLine(a, what, msg) == <<"ERR", a, what, msg>>

\* r.startsWith(mark)
StartsWith(line, mark) == line[1] = mark

\* results.filter((r) => r.startsWith(mark)).length
CountMark(lines, mark) == Cardinality({i \in 1..Len(lines) : StartsWith(lines[i], mark)})

(***************************************************************************)
(* execute                                                                 *)
(***************************************************************************)
AgInit ==
  /\ args \in ArgsSet
  /\ pc = "resolve"
  /\ heap = <<>>
  /\ entity = 0
  /\ currentEntity = 0
  /\ modifications = <<>>
  /\ idx = 0
  /\ results = <<>>
  /\ inflight = <<>>
  /\ calls = <<>>
  /\ events = <<>>
  /\ saved = <<>>
  /\ env = [resolve |-> "pending", validate |-> "pending"]
  /\ ret = Pending

Finish(r) == /\ ret' = r
             /\ pc' = "done"

\* The null check left out: a missing entity goes on into the pipeline.
EntityMissing_Never(r) == FALSE

\* if (!entity): what resolveEntity resolved to is null
EntityMissing(r) == r = "null"

\* 1. const entity = await resolveEntity(entityId, context); if (!entity) return
Resolve ==
  /\ pc = "resolve"
  /\ \E r \in {"entity", "null"} :
       /\ env' = [env EXCEPT !.resolve = r]
       /\ heap' = IF r = "entity" THEN <<InitialContent>> ELSE <<>>
       /\ entity' = IF r = "entity" THEN 1 ELSE 0
       /\ IF EntityMissing(r)
          THEN Finish(errorResult("entity not found"))
          ELSE /\ pc' = "validate"
               /\ UNCHANGED ret
  /\ events' = Append(events, "resolveEntity")
  /\ UNCHANGED <<args, currentEntity, modifications, idx, results, inflight, calls, saved>>

\* 1. resolveEntity rejects: nothing catches it
ResolveThrows ==
  /\ pc = "resolve"
  /\ env' = [env EXCEPT !.resolve = "throw"]
  /\ events' = Append(events, "resolveEntity")
  /\ Finish(Rejected("resolve failed"))
  /\ UNCHANGED <<args, heap, entity, currentEntity, modifications, idx, results,
                 inflight, calls, saved>>

\* typeof validation === 'string' ? validation : 'Entity validation failed'
ValidationError(v) == IF v = "false" THEN "Entity validation failed" ELSE v

\* A truthiness test, if (!validation): a string reason passes.
ValidationPasses_Truthy(v) == v # "false"

\* !validateEntity || validateEntity(entity) === true, for what the validator
\* answers: "absent" (none configured), "true", "false" or a string reason
ValidationPasses(v) == v \in {"absent", "true"}

\* 2. if (validateEntity) { const validation = validateEntity(entity); ... }
ValidateEntity ==
  /\ pc = "validate"
  /\ \E v \in {"absent", "true", "false", "plan is archived"} :
       /\ env' = [env EXCEPT !.validate = v]
       /\ events' = IF v = "absent" THEN events ELSE Append(events, "validateEntity")
       /\ IF ValidationPasses(v)
          THEN /\ pc' = "build"
               /\ UNCHANGED ret
          ELSE Finish(errorResult(ValidationError(v)))
  /\ UNCHANGED <<args, heap, entity, currentEntity, modifications, idx, results,
                 inflight, calls, saved>>

\* 2. validateEntity throws: nothing catches it
ValidateThrows ==
  /\ pc = "validate"
  /\ env' = [env EXCEPT !.validate = "throw"]
  /\ events' = Append(events, "validateEntity")
  /\ Finish(Rejected("validator failed"))
  /\ UNCHANGED <<args, heap, entity, currentEntity, modifications, idx, results,
                 inflight, calls, saved>>

\* The top-level action is applied before the items of the batch.
BuildList_TopToo(a) ==
  (IF a.top.action # "none" THEN <<a.top>> ELSE <<>>)
  \o (IF a.batchPresent THEN a.batch ELSE <<>>)

\* 3. the modifications list
BuildList(a) ==
  IF a.batchPresent /\ Len(a.batch) > 0 THEN a.batch
  ELSE IF a.top.action # "none" THEN <<a.top>>
  ELSE <<>>

\* The empty list is not noticed.
NothingToDo_Never(mods) == FALSE

\* if (modifications.length === 0)
NothingToDo(mods) == Len(mods) = 0

\* 3.-4. build the list; empty: errorResult; else let currentEntity = entity
BuildModifications ==
  /\ pc = "build"
  /\ modifications' = BuildList(args)
  /\ IF NothingToDo(BuildList(args))
     THEN /\ Finish(errorResult("No modification specified"))
          /\ UNCHANGED <<currentEntity, idx>>
     ELSE /\ currentEntity' = entity
          /\ idx' = 1
          /\ pc' = "loop"
          /\ UNCHANGED ret
  /\ UNCHANGED <<args, heap, entity, results, inflight, calls, events, saved, env>>

\* The target is handed to the handler without validation.
Dispatch_NoTargetCheck(mod) ==
  IF Lookup(mod.action) = "undefined" THEN "unknown"
  ELSE IF Lookup(mod.action) = "inherited" THEN "typeerror"
  ELSE IF HasChangesSchema(mod.action) /\ mod.changes # "undef"
          /\ ~ChangesParse(mod.changes).success THEN "changes"
  ELSE "invoke"

\* What the loop body does with one item before any handler runs:
\* "unknown", "target", "changes" (a failure line, continue), "typeerror"
\* (handler.targetSchema is undefined on an inherited member: the TypeError of
\* handler.targetSchema.safeParse is caught by the catch block) or "invoke".
Dispatch(mod) ==
  IF Lookup(mod.action) = "undefined" THEN "unknown"
  ELSE IF Lookup(mod.action) = "inherited" THEN "typeerror"
  ELSE IF ~TargetParse(mod.target).success THEN "target"
  ELSE IF HasChangesSchema(mod.action) /\ mod.changes # "undef"
          /\ ~ChangesParse(mod.changes).success THEN "changes"
  ELSE "invoke"

\* The parsed payload is dropped: the handler gets the payload as supplied.
ChangesParsed_Raw(mod) == mod.changes

\* let changesParsed
ChangesParsed(mod) ==
  IF HasChangesSchema(mod.action) /\ mod.changes # "undef"
  THEN ChangesParse(mod.changes).data
  ELSE mod.changes

\* The failure line of an item that reaches no handler.
RejectLine(mod) ==
  CASE Dispatch(mod) = "unknown" -> ErrLine(mod.action, "Unknown action", "")
    [] Dispatch(mod) = "typeerror" ->
         ErrLine(mod.action, "failed", "Cannot read properties of undefined")
    [] Dispatch(mod) = "target" -> ErrLine(mod.action, "Invalid target", "schema")
    [] OTHER -> ErrLine(mod.action, "Invalid changes", "schema")

\* The failure of an item that reaches no handler is dropped.
PushRejected_Dropped(lines, mod) == lines

\* results.push(`... Unknown action / Invalid target / Invalid changes ...`)
PushRejected(lines, mod) == Append(lines, RejectLine(mod))

\* break: the first item to settle ends the loop.
Continue_Break(i, n) == n + 1

\* continue: the for-of loop goes on with the next of the n items
Continue(i, n) == i + 1

\* 4. one item that fails before its handler: results.push(...); continue
ItemRejected ==
  /\ pc = "loop"
  /\ idx <= Len(modifications)
  /\ Dispatch(modifications[idx]) # "invoke"
  /\ results' = PushRejected(results, modifications[idx])
  /\ idx' = Continue(idx, Len(modifications))
  /\ UNCHANGED <<args, pc, heap, entity, currentEntity, modifications, inflight,
                 calls, events, saved, env, ret>>

\* The call handler.execute receives.
HandlerCall(i, mod, cur, h) ==
  [item |-> i, action |-> mod.action, entity |-> cur, content |-> h[cur],
   target |-> TargetParse(mod.target).data, changes |-> ChangesParsed(mod)]

\* The handler's promise is not awaited: the loop goes on while it runs.
AfterInvoke_NoAwait == "loop"

\* await: execute is suspended until the handler's promise settles
AfterInvoke == "handler"

\* 4. await handler.execute(currentEntity, {...}, context): the call
ItemInvoke ==
  /\ pc = "loop"
  /\ idx <= Len(modifications)
  /\ Dispatch(modifications[idx]) = "invoke"
  /\ inflight' = Append(inflight, HandlerCall(idx, modifications[idx], currentEntity, heap))
  /\ calls' = Append(calls, HandlerCall(idx, modifications[idx], currentEntity, heap))
  /\ events' = Append(events, "handler")
  /\ pc' = AfterInvoke
  /\ UNCHANGED <<args, heap, entity, currentEntity, modifications, idx, results,
                 saved, env, ret>>

\* The handler's return value is not used.
NextEntity_Ignored(cur, run) == cur

\* if (result !== undefined && result !== null) currentEntity = result
NextEntity(cur, run) == IF run.kind = "entity" THEN run.ref ELSE cur

\* The catch block records the failure without the exception's message.
SettleLine_NoMessage(a, run) ==
  IF run.kind = "throw" THEN ErrLine(a, "failed", "") ELSE OkLine(a)

\* The line pushed once the handler has settled.
SettleLine(a, run) ==
  IF run.kind = "throw" THEN ErrLine(a, "failed", run.msg) ELSE OkLine(a)

\* The entity after a handler that threw: the catch block assigns nothing.
EntityAfter(cur, run) == IF run.kind = "throw" THEN cur ELSE NextEntity(cur, run)

\* 4. the handler settles: its return value or its exception
HandlerSettle ==
  /\ pc = "handler"
  /\ LET c   == inflight[1]
         run == HandlerRun(c.action, heap, currentEntity, c.changes)
     IN  /\ heap' = run.heap
         /\ currentEntity' = EntityAfter(currentEntity, run)
         /\ results' = Append(results, SettleLine(c.action, run))
  /\ inflight' = <<>>
  /\ idx' = Continue(idx, Len(modifications))
  /\ pc' = "loop"
  /\ UNCHANGED <<args, entity, modifications, calls, events, saved, env, ret>>

LoopDone == pc = "loop" /\ idx > Len(modifications)

\* The save is skipped: execute goes on to afterSave.
SaveStep_Skipped == "afterSave"

\* The statement after the beforeSave hook: try { await saveEntity(...) }
SaveStep == "save"

\* 5. no beforeSave configured
BeforeSaveAbsent ==
  /\ LoopDone
  /\ pc' = SaveStep
  /\ UNCHANGED <<args, heap, entity, currentEntity, modifications, idx, results,
                 inflight, calls, events, saved, env, ret>>

\* beforeSave's return value is not used.
AfterBeforeSave_Ignored(cur, out) == cur

\* currentEntity = await beforeSave(currentEntity, context)
AfterBeforeSave(cur, out) == out

\* 5. currentEntity = await beforeSave(currentEntity, context): a transform
BeforeSaveRuns ==
  /\ LoopDone
  /\ heap' = Append(heap, [heap[currentEntity] EXCEPT !.hooked = TRUE])
  /\ currentEntity' = AfterBeforeSave(currentEntity, Len(heap) + 1)
  /\ events' = Append(events, "beforeSave")
  /\ pc' = SaveStep
  /\ UNCHANGED <<args, entity, modifications, idx, results, inflight, calls, saved, env, ret>>

\* 5. beforeSave throws: nothing catches it
BeforeSaveThrows ==
  /\ LoopDone
  /\ events' = Append(events, "beforeSave")
  /\ Finish(Rejected("beforeSave failed"))
  /\ UNCHANGED <<args, heap, entity, currentEntity, modifications, idx, results,
                 inflight, calls, saved, env>>

\* saveEntity is handed the entity as resolved, not currentEntity.
SavedEntity_Resolved(h, ent, cur) == h[ent]

\* The entity saveEntity(entityId, currentEntity, context) is handed.
SavedEntity(h, ent, cur) == h[cur]

\* 6. await saveEntity(entityId, currentEntity, context) succeeds
SaveOk ==
  /\ pc = "save"
  /\ saved' = Append(saved, SavedEntity(heap, entity, currentEntity))
  /\ events' = Append(events, "saveEntity")
  /\ pc' = "afterSave"
  /\ UNCHANGED <<args, heap, entity, currentEntity, modifications, idx, results,
                 inflight, calls, env, ret>>

\* `Save failed: ${error.message}`
SaveFailedMessage(e) == CASE e = "db down" -> "Save failed: db down"

\* The catch block swallows the error and execute goes on as after a save.
SaveFailure_Swallowed(lines, e) == successResult(lines, NoUpdated)

\* catch (error) { return errorResult(`Save failed: ...`) }
SaveFailure(lines, e) == errorResult(SaveFailedMessage(e))

\* 6. saveEntity throws: return errorResult(`Save failed: ...`)
SaveThrows ==
  /\ pc = "save"
  /\ events' = Append(events, "saveEntity")
  /\ Finish(SaveFailure(results, "db down"))
  /\ UNCHANGED <<args, heap, entity, currentEntity, modifications, idx, results,
                 inflight, calls, saved, env>>

\* 8. the aggregate result
Aggregate(lines) ==
  successResult(lines, [modificationsApplied |-> CountMark(lines, "OK"),
                        errors |-> CountMark(lines, "ERR")])

\* 7.-8. afterSave absent or resolved, then the result
AfterSaveAndReturn ==
  /\ pc = "afterSave"
  /\ \E configured \in BOOLEAN :
       events' = IF configured THEN Append(events, "afterSave") ELSE events
  /\ Finish(Aggregate(results))
  /\ UNCHANGED <<args, heap, entity, currentEntity, modifications, idx, results,
                 inflight, calls, saved, env>>

\* 7. afterSave throws: nothing catches it
AfterSaveThrows ==
  /\ pc = "afterSave"
  /\ events' = Append(events, "afterSave")
  /\ Finish(Rejected("afterSave failed"))
  /\ UNCHANGED <<args, heap, entity, currentEntity, modifications, idx, results,
                 inflight, calls, saved, env>>

(***************************************************************************)
(* ModificationService: the store and its callers.                         *)
(***************************************************************************)
\* Total number of modifyNutritionDay / modifyWorkoutWeek calls followed.
MaxCalls == 3

\* The concurrent callers of the service.
Procs == {1, 2}

\* The two operations and the table each works on.
Ops == {"nutrition", "workout"}

\* A day of a nutrition plan, a week of a plan, a week of a workout program.
Day(n, meals) == [dayNumber |-> n, meals |-> meals]
NWeek(n, days) == [weekNumber |-> n, days |-> days]
WWeek(n, content) == [weekNumber |-> n, content |-> content]

\* The row of nutrition_plans and the row of workout_programs the store holds.
InitialPlan ==
  [id |-> "e1", userId |-> "u1", version |-> 1, name |-> "plan",
   weeks |-> << NWeek(1, <<Day(1, "a"), Day(2, "b")>>), NWeek(2, <<Day(3, "c")>>) >>]

InitialProgram ==
  [id |-> "e1", userId |-> "u1", version |-> 1, name |-> "program",
   weeks |-> << WWeek(1, "a"), WWeek(2, "b") >>]

NoRow == [id |-> "", userId |-> "", version |-> 0, name |-> "", weeks |-> <<>>]

NoCall == [op |-> "", id |-> "", number |-> 0, dataNumber |-> 0, content |-> "",
           userId |-> ""]

NoTx == [snap |-> <<>>, upd |-> <<>>]

VARIABLES
  nutrition_plans,          \* prisma.nutrition_plans: the row with id "e1"
  nutrition_plan_versions,  \* prisma.nutrition_plan_versions, in insertion order
  workout_programs,         \* prisma.workout_programs: the row with id "e1"
  workout_program_versions, \* prisma.workout_program_versions, in insertion order
  spc,                      \* each caller's position in its call
  call,                     \* each caller's params
  local,                    \* planToUpdate / programToUpdate
  prep,                     \* persistenceData.weeks
  tx,                       \* the statements of the caller's open transaction
  overlapped,               \* another cycle committed on the entity since the read
  outcome,                  \* how each caller's last call ended
  returned,                 \* the row each caller's last call returned
  ncalls                    \* calls started

svcVars == <<nutrition_plans, nutrition_plan_versions, workout_programs,
             workout_program_versions, spc, call, local, prep, tx, overlapped,
             outcome, returned, ncalls>>

storeVars == <<nutrition_plans, nutrition_plan_versions, workout_programs,
               workout_program_versions>>

Live(op) == IF op = "nutrition" THEN nutrition_plans ELSE workout_programs
Versions(op) == IF op = "nutrition" THEN nutrition_plan_versions ELSE workout_program_versions

SvcInit ==
  /\ nutrition_plans = InitialPlan
  /\ nutrition_plan_versions = <<>>
  /\ workout_programs = InitialProgram
  /\ workout_program_versions = <<>>
  /\ spc = [p \in Procs |-> "idle"]
  /\ call = [p \in Procs |-> NoCall]
  /\ local = [p \in Procs |-> NoRow]
  /\ prep = [p \in Procs |-> <<>>]
  /\ tx = [p \in Procs |-> NoTx]
  /\ overlapped = [p \in Procs |-> FALSE]
  /\ outcome = [p \in Procs |-> "none"]
  /\ returned = [p \in Procs |-> NoRow]
  /\ ncalls = 0

Params(op, id, n, dn, c, u) ==
  [op |-> op, id |-> id, number |-> n, dataNumber |-> dn, content |-> c, userId |-> u]

\* The params a caller passes: every day or week number around the valid
\* range for the owner's entity, and a call each for an id that does not exist
\* and for a user who is not the owner. The modified data carries the caller's
\* own content.
ParamsOf(p) ==
  LET c == IF p = 1 THEN "x" ELSE "y"
  IN  {Params("nutrition", "e1", n, n, c, "u1") : n \in 0..4}
      \cup {Params("workout", "e1", n, n, c, "u1") : n \in 0..3}
      \cup {Params(op, "missing", 1, 1, c, "u1") : op \in Ops}
      \cup {Params(op, "e1", 1, 1, c, "u2") : op \in Ops}

\* The call of modifyNutritionDay(params) / modifyWorkoutWeek(params)
SvcCall(p) ==
  /\ spc[p] = "idle"
  /\ ncalls < MaxCalls
  /\ \E c \in ParamsOf(p) : call' = [call EXCEPT ![p] = c]
  /\ spc' = [spc EXCEPT ![p] = "find"]
  /\ overlapped' = [overlapped EXCEPT ![p] = FALSE]
  /\ outcome' = [outcome EXCEPT ![p] = "none"]
  /\ returned' = [returned EXCEPT ![p] = NoRow]
  /\ ncalls' = ncalls + 1
  /\ UNCHANGED <<storeVars, local, prep, tx>>

\* throw new Error(msg): the call ends, its locals are dropped
Throw(p, msg) ==
  /\ spc' = [spc EXCEPT ![p] = "idle"]
  /\ outcome' = [outcome EXCEPT ![p] = msg]
  /\ local' = [local EXCEPT ![p] = NoRow]
  /\ prep' = [prep EXCEPT ![p] = <<>>]
  /\ tx' = [tx EXCEPT ![p] = NoTx]

\* prisma.<table>.findUnique({ where: { id } })
FindUnique(op, id) == IF Live(op).id = id THEN Live(op) ELSE NoRow

\* The ownership check is missing.
Unauthorized_Never(row, userId) == FALSE

\* if (plan.userId !== userId) / if (program.userId !== userId)
Unauthorized(row, userId) == row.userId # userId

\* findUnique, then the not-found and the ownership checks
SvcFind(p) ==
  /\ spc[p] = "find"
  /\ LET row == FindUnique(call[p].op, call[p].id)
     IN  IF row = NoRow THEN Throw(p, "not found")
         ELSE IF Unauthorized(row, call[p].userId) THEN Throw(p, "Unauthorized")
         ELSE /\ local' = [local EXCEPT ![p] = row]
              /\ spc' = [spc EXCEPT ![p] = "prepare"]
              /\ UNCHANGED <<prep, tx, outcome>>
  /\ UNCHANGED <<storeVars, call, overlapped, returned, ncalls>>

(***************************************************************************)
(* modifyNutritionDay: the new weeks (lines 86-156)                        *)
(***************************************************************************)
RECURSIVE SumDays(_, _)
SumDays(weeks, i) ==
  IF i > Len(weeks) THEN 0 ELSE Len(weeks[i].days) + SumDays(weeks, i + 1)

\* getNutritionPlanTotalDays(plan)
getNutritionPlanTotalDays(weeks) == SumDays(weeks, 1)

\* getNutritionPlanDay(plan, dayNumber) finds a day (the day numbered
\* dayNumber, in any week)
HasPlanDay(weeks, n) ==
  \E i \in 1..Len(weeks) : \E j \in 1..Len(weeks[i].days) : weeks[i].days[j].dayNumber = n

\* The for-of loop of lines 101-111 from week i on: the weekNum it ends with.
RECURSIVE WeekNumLoop(_, _, _, _, _)
WeekNumLoop(weeks, dayNumber, i, dayCounter, weekNum) ==
  IF i > Len(weeks) THEN weekNum
  ELSE IF dayCounter + Len(weeks[i].days) >= dayNumber THEN weeks[i].weekNumber
  ELSE WeekNumLoop(weeks, dayNumber, i + 1, dayCounter + Len(weeks[i].days), weekNum + 1)

\* let weekNum = 1; let dayCounter = 0; for (const week of weeks) ...
WeekNumOf(weeks, dayNumber) == WeekNumLoop(weeks, dayNumber, 1, 0, 1)

\* week.days.map((d) => (d.dayNumber === dayNumber ? modifiedDay : d))
ReplaceDay(days, dayNumber, modifiedDay) ==
  [j \in 1..Len(days) |-> IF days[j].dayNumber = dayNumber THEN modifiedDay ELSE days[j]]

\* The day is replaced in every week, whatever its weekNumber.
UpdatedPlanWeeks_AllWeeks(weeks, weekNum, dayNumber, modifiedDay) ==
  [i \in 1..Len(weeks) |->
     [weeks[i] EXCEPT !.days = ReplaceDay(@, dayNumber, modifiedDay)]]

\* normalizedPlanToUpdate.weeks.map((week) => week.weekNumber === weekNum ? ... : week)
UpdatedPlanWeeks(weeks, weekNum, dayNumber, modifiedDay) ==
  [i \in 1..Len(weeks) |->
     IF weeks[i].weekNumber = weekNum
     THEN [weeks[i] EXCEPT !.days = ReplaceDay(@, dayNumber, modifiedDay)]
     ELSE weeks[i]]

\* The error modifyNutritionDay throws before its transaction ("": none),
\* normOk telling whether normalizeAgentPayload yields the day.
NutritionError(weeks, c, normOk) ==
  IF c.number < 1 \/ c.number > getNutritionPlanTotalDays(weeks) THEN "Invalid day number"
  ELSE IF ~HasPlanDay(weeks, c.number) THEN "Day not found"
  ELSE IF ~normOk THEN "Failed to normalize"
  ELSE ""

\* normalizedTempPlan.weeks[0].days[0]: the agent's day, normalized
ModifiedDay(c) == Day(c.dataNumber, c.content)

\* persistenceData.weeks of modifyNutritionDay
NutritionWeeks(weeks, c) ==
  UpdatedPlanWeeks(weeks, WeekNumOf(weeks, c.number), c.number, ModifiedDay(c))

(***************************************************************************)
(* modifyWorkoutWeek: the new weeks (lines 226-274)                        *)
(***************************************************************************)
\* The index of the last week carrying the number, not of the first.
FindWeekIndex_Last(weeks, weekNumber) ==
  IF \E i \in 1..Len(weeks) : weeks[i].weekNumber = weekNumber
  THEN CHOOSE i \in 1..Len(weeks) :
         /\ weeks[i].weekNumber = weekNumber
         /\ \A j \in (i + 1)..Len(weeks) : weeks[j].weekNumber # weekNumber
  ELSE 0

\* updatedWeeks.findIndex((w) => w.weekNumber === weekNumber), from 1; 0: none
FindWeekIndex(weeks, weekNumber) ==
  IF \E i \in 1..Len(weeks) : weeks[i].weekNumber = weekNumber
  THEN CHOOSE i \in 1..Len(weeks) :
         /\ weeks[i].weekNumber = weekNumber
         /\ \A j \in 1..(i - 1) : weeks[j].weekNumber # weekNumber
  ELSE 0

\* The error modifyWorkoutWeek throws before its transaction ("": none)
WorkoutError(weeks, c, normOk) ==
  IF c.number < 1 \/ c.number > Len(weeks) THEN "Invalid week number"
  ELSE IF ~normOk THEN "Failed to normalize"
  ELSE IF FindWeekIndex(weeks, c.number) = 0 THEN "Week not found"
  ELSE ""

\* normalizedTempProgram.weeks[0]: the agent's week, normalized
ModifiedWeek(c) == WWeek(c.dataNumber, c.content)

\* persistenceData.weeks of modifyWorkoutWeek
WorkoutWeeks(weeks, c) ==
  [weeks EXCEPT ![FindWeekIndex(weeks, c.number)] = ModifiedWeek(c)]

PrepareError(c, weeks, normOk) ==
  IF c.op = "nutrition" THEN NutritionError(weeks, c, normOk)
  ELSE WorkoutError(weeks, c, normOk)

PrepareWeeks(c, weeks) ==
  IF c.op = "nutrition" THEN NutritionWeeks(weeks, c) ELSE WorkoutWeeks(weeks, c)

\* Everything between the ownership check and the transaction: it reads and
\* writes the call's locals only.
SvcPrepare(p) ==
  /\ spc[p] = "prepare"
  /\ \E normOk \in BOOLEAN :
       LET err == PrepareError(call[p], local[p].weeks, normOk)
       IN  IF err # "" THEN Throw(p, err)
           ELSE /\ prep' = [prep EXCEPT ![p] = PrepareWeeks(call[p], local[p].weeks)]
                /\ spc' = [spc EXCEPT ![p] = "tx"]
                /\ UNCHANGED <<local, tx, outcome>>
  /\ UNCHANGED <<storeVars, call, overlapped, returned, ncalls>>

(***************************************************************************)
(* The transaction (lines 158-195 and 276-309)                             *)
(***************************************************************************)
\* The data of tx.<versions>.create: the row read at the start of the call.
SnapshotData(row, userId) ==
  [entityId |-> row.id, version |-> row.version, name |-> row.name,
   weeks |-> row.weeks, createdBy |-> userId]

\* The update leaves the version as it is.
UpdatedRow_NoIncrement(row, name, weeks) == [row EXCEPT !.name = name, !.weeks = weeks]

\* tx.<table>.update: persistenceData's fields, version: { increment: 1 }
UpdatedRow(row, name, weeks) ==
  [row EXCEPT !.name = name, !.weeks = weeks, !.version = @ + 1]

\* The create runs on prisma, outside the transaction: it is committed at once.
VersionsAfterCreate_Autocommit(versions, snap) == Append(versions, snap)

\* What other connections see of the versions table once a transaction has
\* run its create and not committed: prisma.$transaction keeps it private.
VersionsAfterCreate(versions, snap) == versions

\* The create is an upsert on the entity: one snapshot per entity is kept.
VersionsAfterCommit_Upsert(versions, snap) == <<snap>>

\* What other connections see of the versions table at the commit.
VersionsAfterCommit(versions, snap) == Append(versions, snap)

SetVersions(op, versions) ==
  IF op = "nutrition"
  THEN /\ nutrition_plan_versions' = versions
       /\ UNCHANGED workout_program_versions
  ELSE /\ workout_program_versions' = versions
       /\ UNCHANGED nutrition_plan_versions

SetLive(op, row) ==
  IF op = "nutrition"
  THEN /\ nutrition_plans' = row
       /\ UNCHANGED workout_programs
  ELSE /\ workout_programs' = row
       /\ UNCHANGED nutrition_plans

\* await tx.<versions>.create({ data: ... })
TxCreate(p) ==
  /\ spc[p] = "tx"
  /\ LET snap == SnapshotData(local[p], call[p].userId)
     IN  /\ tx' = [tx EXCEPT ![p].snap = <<snap>>]
         /\ SetVersions(call[p].op, VersionsAfterCreate(Versions(call[p].op), snap))
  /\ spc' = [spc EXCEPT ![p] = "tx_created"]
  /\ UNCHANGED <<nutrition_plans, workout_programs, call, local, prep, overlapped,
                 outcome, returned, ncalls>>

\* The row lock of the UPDATE: held by the transaction that has run it.
RowLocked(op, p) ==
  \E q \in Procs \ {p} : call[q].op = op /\ tx[q].upd # <<>>

\* await tx.<table>.update({ where: { id }, data: ... }): the statement reads
\* the row as last committed and waits for the row's lock
TxUpdate(p) ==
  /\ spc[p] = "tx_created"
  /\ ~RowLocked(call[p].op, p)
  /\ tx' = [tx EXCEPT ![p].upd = <<UpdatedRow(Live(call[p].op), local[p].name, prep[p])>>]
  /\ spc' = [spc EXCEPT ![p] = "tx_updated"]
  /\ UNCHANGED <<storeVars, call, local, prep, overlapped, outcome, returned, ncalls>>

\* The callers whose cycle on the entity is between its read and its commit.
InCycle(op, p) ==
  {q \in Procs \ {p} : call[q].op = op /\ spc[q] \in {"prepare", "tx", "tx_created", "tx_updated"}}

\* The callback of $transaction resolves: COMMIT
TxCommit(p) ==
  /\ spc[p] = "tx_updated"
  /\ SetVersions(call[p].op, VersionsAfterCommit(Versions(call[p].op), tx[p].snap[1]))
  /\ SetLive(call[p].op, tx[p].upd[1])
  /\ tx' = [tx EXCEPT ![p] = NoTx]
  /\ overlapped' = [q \in Procs |-> overlapped[q] \/ q \in InCycle(call[p].op, p)]
  /\ spc' = [spc EXCEPT ![p] = "refetch"]
  /\ UNCHANGED <<call, local, prep, outcome, returned, ncalls>>

\* The UPDATE that ran stays in the row although its transaction failed.
RowAfterRollback_Partial(row, upd) == IF upd # <<>> THEN upd[1] ELSE row

\* What other connections see of the row once its transaction is rolled back:
\* the row as last committed, whatever the transaction had updated.
RowAfterRollback(row, upd) == row

\* The error of the statement that fails.
FailureOf(at) ==
  CASE at = "tx" -> "create failed"
    [] at = "tx_created" -> "update failed"
    [] OTHER -> "commit failed"

\* A statement of the transaction, or its commit, fails: ROLLBACK, and
\* $transaction rejects
TxFails(p) ==
  /\ spc[p] \in {"tx", "tx_created", "tx_updated"}
  /\ SetLive(call[p].op, RowAfterRollback(Live(call[p].op), tx[p].upd))
  /\ Throw(p, FailureOf(spc[p]))
  /\ UNCHANGED <<nutrition_plan_versions, workout_program_versions, call, overlapped,
                 returned, ncalls>>

\* findUnique again, and the return
SvcRefetch(p) ==
  /\ spc[p] = "refetch"
  /\ returned' = [returned EXCEPT ![p] = FindUnique(call[p].op, call[p].id)]
  /\ outcome' = [outcome EXCEPT ![p] = "ok"]
  /\ spc' = [spc EXCEPT ![p] = "idle"]
  /\ local' = [local EXCEPT ![p] = NoRow]
  /\ prep' = [prep EXCEPT ![p] = <<>>]
  /\ UNCHANGED <<storeVars, call, tx, overlapped, ncalls>>

(***************************************************************************)
(* One call on any stored plan or program: the rows the store may hold,    *)
(* with day and week numbers that need not follow the positions.           *)
(***************************************************************************)
\* Most weeks a stored plan or program has.
MaxWeeks == 2

\* The numbers a stored day and a stored week may carry.
DayNumbers == 1..3
WeekNumbers == 1..2

\* The content of the day at position j of the week at position i, and of the
\* week at position i: each position holds its own.
MealsAt(i, j) == <<<<"a", "b">>, <<"c", "d">>, <<"e", "f">>>>[i][j]
ContentAt(i) == <<"a", "b", "c">>[i]

\* week.days of a stored week at position i: no day, one or two
StoredDays(i) ==
  {[j \in 1..Len(ns) |-> Day(ns[j], MealsAt(i, j))] : ns \in SeqsUpTo(DayNumbers, 2)}

\* plan.weeks of a stored plan
StoredPlanWeeks ==
  UNION {{w \in [1..n -> UNION {{NWeek(wn, ds) : wn \in WeekNumbers, ds \in StoredDays(i)}
                                  : i \in 1..n}] :
            \A i \in 1..n : w[i].days \in StoredDays(i)} : n \in 1..MaxWeeks}

\* program.weeks of a stored program
StoredProgramWeeks ==
  {[i \in 1..Len(ns) |-> WWeek(ns[i], ContentAt(i))] :
     ns \in SeqsUpTo(WeekNumbers \cup {3}, MaxWeeks)}

\* The store holds any plan, or any program.
EditInit ==
  /\ \/ /\ \E w \in StoredPlanWeeks : nutrition_plans = [InitialPlan EXCEPT !.weeks = w]
        /\ workout_programs = InitialProgram
     \/ /\ nutrition_plans = InitialPlan
        /\ \E w \in StoredProgramWeeks : workout_programs = [InitialProgram EXCEPT !.weeks = w]
  /\ nutrition_plan_versions = <<>>
  /\ workout_program_versions = <<>>
  /\ spc = [p \in Procs |-> "idle"]
  /\ call = [p \in Procs |-> NoCall]
  /\ local = [p \in Procs |-> NoRow]
  /\ prep = [p \in Procs |-> <<>>]
  /\ tx = [p \in Procs |-> NoTx]
  /\ overlapped = [p \in Procs |-> FALSE]
  /\ outcome = [p \in Procs |-> "none"]
  /\ returned = [p \in Procs |-> NoRow]
  /\ ncalls = 0

\* The owner's params: every day or week number around the range of the
\* stored entity, the modified data numbered 1 or 2, as asked or otherwise,
\* and a call each for an id that does not exist.
EditParams ==
  {Params("nutrition", "e1", n, dn, "x", "u1") : n \in 0..(2 * MaxWeeks + 1), dn \in 1..2}
  \cup {Params("workout", "e1", n, dn, "x", "u1") : n \in 0..(MaxWeeks + 1), dn \in 1..2}
  \cup {Params(op, "missing", 1, 1, "x", "u1") : op \in Ops}

\* The one call of modifyNutritionDay(params) / modifyWorkoutWeek(params)
EditCall(p) ==
  /\ spc[p] = "idle"
  /\ ncalls = 0
  /\ \E c \in EditParams : call' = [call EXCEPT ![p] = c]
  /\ spc' = [spc EXCEPT ![p] = "find"]
  /\ ncalls' = ncalls + 1
  /\ UNCHANGED <<storeVars, local, prep, tx, overlapped, outcome, returned>>

(***************************************************************************)
(* The CRUD tool: createCrudTool(config).execute(args, context)            *)
(***************************************************************************)
MaxCrudBatch == 3

\* CrudOperations
CrudOperations == {"create", "read", "update", "delete"}

\* Object.keys(handlers): the operations the tool is configured with.
CrudHandlers == {"create", "update", "delete"}

\* handlers[operation]
CrudLookup(op) ==
  IF op \in CrudHandlers THEN "handler"
  ELSE IF op \in InheritedNames THEN "inherited"
  ELSE "undefined"

\* An object with the keys id and v ("undef": the key is absent).
Obj(id, v) == [id |-> id, v |-> v]

\* { ...item.target, ...item.data }: the keys of data override those of target
Spread(target, data) ==
  [id |-> IF data.id # "undef" THEN data.id ELSE target.id,
   v  |-> IF data.v # "undef" THEN data.v ELSE target.v]

\* BatchOperationItem
CrudItem(op, target, data) == [operation |-> op, target |-> target, data |-> data]

\* The items the batches are built from.
CrudItems ==
  { CrudItem("create", Obj("undef", "undef"), Obj("undef", "x")),
    CrudItem("update", Obj("1", "old"), Obj("undef", "new")),
    CrudItem("delete", Obj("1", "undef"), Obj("undef", "undef")),
    CrudItem("read", Obj("1", "undef"), Obj("undef", "undef")),
    CrudItem("toString", Obj("1", "undef"), Obj("undef", "undef")) }

NoCrudItem == CrudItem("none", Obj("undef", "undef"), Obj("undef", "undef"))

\* args: the top-level operation/target/data (operation "none": undefined)
\* and args.batch; config.batchSupported.
CrudArgsSet ==
  {[top |-> NoCrudItem, batch |-> b, batchSupported |-> s] :
      b \in SeqsUpTo(CrudItems, MaxCrudBatch), s \in BOOLEAN}
  \cup {[top |-> i, batch |-> b, batchSupported |-> s] :
          i \in CrudItems, b \in SeqsUpTo(CrudItems, 1), s \in BOOLEAN}

VARIABLES
  crud_args,       \* args and the tool's batchSupported
  crud_env,        \* how the handler called for each item, and for args, settles
  crud_pc,         \* where execute is
  crud_idx,        \* the position of the for-of loop in batch
  crud_results,    \* results: string[]
  crud_calls,      \* every handler call so far: item, operation, args
  crud_effects,    \* what the handlers have written to their store, in order
  crud_ret         \* what execute's promise settled with

crudVars == <<crud_args, crud_env, crud_pc, crud_idx, crud_results, crud_calls, crud_effects,
              crud_ret>>

\* How a handler can settle: the integrator's handlers return a success,
\* return a failure or throw; an inherited member returns a string; "none":
\* there is nothing to call.
CrudOutcomes(op) ==
  CASE CrudLookup(op) = "handler" -> {"ok", "fail", "throw"}
    [] CrudLookup(op) = "inherited" -> {"string"}
    [] OTHER -> {"none"}

RECURSIVE OutcomeSeqs(_, _)
OutcomeSeqs(b, n) ==
  IF n = 0 THEN {<<>>}
  ELSE {Append(s, o) : s \in OutcomeSeqs(b, n - 1), o \in CrudOutcomes(b[n].operation)}

CrudInit ==
  /\ crud_args \in CrudArgsSet
  /\ crud_env \in [batch : OutcomeSeqs(crud_args.batch, Len(crud_args.batch)),
                   top : CrudOutcomes(crud_args.top.operation)]
  /\ crud_pc = "start"
  /\ crud_idx = 0
  /\ crud_results = <<>>
  /\ crud_calls = <<>>
  /\ crud_effects = <<>>
  /\ crud_ret = Pending

CrudFinish(r) ==
  /\ crud_ret' = r
  /\ crud_pc' = "done"

\* ${operation} of a template literal ("none": undefined)
OpText(op) == IF op = "none" THEN "undefined" ELSE op

\* String(n) of a template literal
NumStr(n) ==
  CASE n = 0 -> "0" [] n = 1 -> "1" [] n = 2 -> "2" [] n = 3 -> "3" [] n = 4 -> "4"
    [] OTHER -> "5"

\* A handler's ModificationResult: it succeeds, or it reports a failure.
HandlerSuccess(op) == successResult("done " \o op, NoUpdated)
HandlerFailure(op) == errorResult("refused " \o op)

\* Calling Object.prototype.toString as a handler returns a string, which is
\* not a ModificationResult: its success and error are undefined.
NotAResult ==
  [status |-> "returned", success |-> FALSE, message |-> "[object Undefined]",
   updated |-> NoUpdated, error |-> "undefined"]


\* if (batch && batch.length > 0) ... else the single operation
CrudStart ==
  /\ crud_pc = "start"
  /\ IF Len(crud_args.batch) > 0
     THEN IF ~crud_args.batchSupported
          THEN /\ CrudFinish(errorResult("Batch operations not supported for this domain"))
               /\ UNCHANGED crud_idx
          ELSE /\ crud_pc' = "batch"
               /\ crud_idx' = 1
               /\ UNCHANGED crud_ret
     ELSE /\ crud_pc' = "single"
          /\ UNCHANGED <<crud_idx, crud_ret>>
  /\ UNCHANGED <<crud_args, crud_env, crud_results, crud_calls, crud_effects>>

\* if (!handler) return errorResult(`Unknown operation in batch: ...`)
CrudBatchUnknown ==
  /\ crud_pc = "batch"
  /\ crud_idx <= Len(crud_args.batch)
  /\ CrudLookup(crud_args.batch[crud_idx].operation) = "undefined"
  /\ CrudFinish(errorResult("Unknown operation in batch: "
                            \o crud_args.batch[crud_idx].operation))
  /\ UNCHANGED <<crud_args, crud_env, crud_idx, crud_results, crud_calls, crud_effects>>

\* The call a handler receives.
CrudCall(i, op, a) == [item |-> i, operation |-> op, args |-> a]

\* await handler({ ...item.target, ...item.data }, context): the call
CrudBatchInvoke ==
  /\ crud_pc = "batch"
  /\ crud_idx <= Len(crud_args.batch)
  /\ CrudLookup(crud_args.batch[crud_idx].operation) # "undefined"
  /\ crud_calls' = Append(crud_calls,
       CrudCall(crud_idx, crud_args.batch[crud_idx].operation,
                Spread(crud_args.batch[crud_idx].target, crud_args.batch[crud_idx].data)))
  /\ crud_pc' = "batch_handler"
  /\ UNCHANGED <<crud_args, crud_env, crud_idx, crud_results, crud_effects, crud_ret>>

\* if (!result.success)
BatchAborts(result) == ~result.success

\* What the handler's promise resolves with, for how it settles.
HandlerResult(op, o) ==
  CASE o = "ok" -> HandlerSuccess(op)
    [] o = "fail" -> HandlerFailure(op)
    [] OTHER -> NotAResult

\* What the handlers have written once one more has settled.
EffectsAfter(effects, call_, o) == IF o = "ok" THEN Append(effects, call_) ELSE effects

\* The handler settles: a throw rejects execute, a result that is not a
\* success returns the batch failure, a success pushes result.message
CrudBatchSettle ==
  /\ crud_pc = "batch_handler"
  /\ LET op     == crud_args.batch[crud_idx].operation
         o      == crud_env.batch[crud_idx]
         result == HandlerResult(op, o)
     IN  /\ crud_effects' = EffectsAfter(crud_effects, crud_calls[Len(crud_calls)], o)
         /\ IF o = "throw"
            THEN /\ CrudFinish(Rejected("handler crashed"))
                 /\ UNCHANGED <<crud_idx, crud_results>>
            ELSE IF BatchAborts(result)
            THEN /\ CrudFinish(errorResult("Batch failed at operation " \o op \o ": "
                                           \o result.error))
                 /\ UNCHANGED <<crud_idx, crud_results>>
            ELSE /\ crud_results' = Append(crud_results, result.message)
                 /\ crud_idx' = crud_idx + 1
                 /\ crud_pc' = "batch"
                 /\ UNCHANGED crud_ret
  /\ UNCHANGED <<crud_args, crud_env, crud_calls>>

\* return successResult(`Batch completed: ${batch.length} operations`, { results })
CrudBatchDone ==
  /\ crud_pc = "batch"
  /\ crud_idx > Len(crud_args.batch)
  /\ CrudFinish(successResult("Batch completed: " \o NumStr(Len(crud_args.batch))
                              \o " operations", [results |-> crud_results]))
  /\ UNCHANGED <<crud_args, crud_env, crud_idx, crud_results, crud_calls, crud_effects>>

\* if (!handler) return errorResult(`Unknown operation: ${operation}`)
CrudSingleUnknown ==
  /\ crud_pc = "single"
  /\ CrudLookup(crud_args.top.operation) = "undefined"
  /\ CrudFinish(errorResult("Unknown operation: " \o OpText(crud_args.top.operation)))
  /\ UNCHANGED <<crud_args, crud_env, crud_idx, crud_results, crud_calls, crud_effects>>

\* try { return await handler(args, context) }: the call
CrudSingleInvoke ==
  /\ crud_pc = "single"
  /\ CrudLookup(crud_args.top.operation) # "undefined"
  /\ crud_calls' = Append(crud_calls,
       CrudCall(0, crud_args.top.operation, crud_args.top))
  /\ crud_pc' = "single_handler"
  /\ UNCHANGED <<crud_args, crud_env, crud_idx, crud_results, crud_effects, crud_ret>>

\* The handler settles: its result is returned as it is; catch (error)
\* returns errorResult(error)
CrudSingleSettle ==
  /\ crud_pc = "single_handler"
  /\ LET op == crud_args.top.operation
         o  == crud_env.top
     IN  /\ crud_effects' = EffectsAfter(crud_effects, crud_calls[Len(crud_calls)], o)
         /\ CrudFinish(IF o = "throw" THEN errorResult("handler crashed")
                       ELSE HandlerResult(op, o))
  /\ UNCHANGED <<crud_args, crud_env, crud_idx, crud_results, crud_calls>>

\* No call of the CRUD tool.
CrudIdle ==
  /\ crud_args = [top |-> NoCrudItem, batch |-> <<>>, batchSupported |-> FALSE]
  /\ crud_env = [batch |-> <<>>, top |-> "none"]
  /\ crud_pc = "idle"
  /\ crud_idx = 0
  /\ crud_results = <<>>
  /\ crud_calls = <<>>
  /\ crud_effects = <<>>
  /\ crud_ret = Pending

(***************************************************************************)
(* Pure helpers: the fuzzy matcher, getEffectiveUserId and safeExecute.    *)
(* A string is the sequence of its characters.                             *)
(***************************************************************************)
MaxStr == 3
MaxTerm == 2
MaxItems == 3

\* The characters of the strings: a lower-case and an upper-case letter, a
\* second letter and white space.
Chars == {"a", "A", "b", " "}

Strings(n) == SeqsUpTo(Chars, n)

\* String.prototype.toLowerCase
toLowerCase(s) == [i \in 1..Len(s) |-> IF s[i] = "A" THEN "a" ELSE s[i]]

RECURSIVE trimStart(_)
trimStart(s) == IF s # <<>> /\ Head(s) = " " THEN trimStart(Tail(s)) ELSE s

RECURSIVE trimEnd(_)
trimEnd(s) ==
  IF s # <<>> /\ s[Len(s)] = " " THEN trimEnd(SubSeq(s, 1, Len(s) - 1)) ELSE s

\* String.prototype.trim
trim(s) == trimEnd(trimStart(s))

\* String.prototype.startsWith
startsWith(s, p) == Len(p) <= Len(s) /\ SubSeq(s, 1, Len(p)) = p

\* String.prototype.includes
includes(s, p) ==
  \E i \in 0..(Len(s) - Len(p)) : SubSeq(s, i + 1, i + Len(p)) = p

\* FuzzyMatchOptions: each option is "true", "false" or "undef" (left out).
FuzzyMatchOptions ==
  [exact : {"undef", "true", "false"}, startsWith : {"undef", "true"},
   minScore : {"undef", "1"}]

\* const { exact = false, startsWith = false } = options
OptionOn(o) == o = "true"

\* The strings are compared as they are, white space included.
Normalized_NoTrim(s) == toLowerCase(s)

\* s.toLowerCase().trim()
Normalized(s) == trim(toLowerCase(s))

\* The prefix test is tried before the equality.
fuzzyMatch_StartsWithFirst(target, searchTerm, options) ==
  IF OptionOn(options.startsWith)
  THEN startsWith(Normalized(target), Normalized(searchTerm))
  ELSE IF OptionOn(options.exact) THEN Normalized(target) = Normalized(searchTerm)
  ELSE includes(Normalized(target), Normalized(searchTerm))

\* fuzzyMatch(target, searchTerm, options)
fuzzyMatch(target, searchTerm, options) ==
  LET normalizedTarget == Normalized(target)
      normalizedSearch == Normalized(searchTerm)
  IN  IF OptionOn(options.exact) THEN normalizedTarget = normalizedSearch
      ELSE IF OptionOn(options.startsWith) THEN startsWith(normalizedTarget, normalizedSearch)
      ELSE includes(normalizedTarget, normalizedSearch)

\* A field value: a string, a number or undefined (the key is absent).
Str(s) == [type |-> "string", val |-> s]
Num == [type |-> "number", val |-> <<>>]
Undefined == [type |-> "undefined", val |-> <<>>]

\* An item: the fields name and id (id is a number).
FuzzyItem(name, id) == [name |-> name, id |-> id]

\* item[nameField]: the items have no other key than name and id
Field(item, nameField) ==
  CASE nameField = "name" -> item.name
    [] nameField = "id" -> Num
    [] OTHER -> Undefined

\* The callback of findIndex and filter
Qualifies(item, nameField, searchTerm, options) ==
  IF Field(item, nameField).type # "string" THEN FALSE
  ELSE fuzzyMatch(Field(item, nameField).val, searchTerm, options)

\* Array.prototype.findIndex from position i on (positions count from 0)
RECURSIVE findIndexFrom(_, _, _, _, _)
findIndexFrom(items, i, nameField, searchTerm, options) ==
  IF i >= Len(items) THEN 0 - 1
  ELSE IF Qualifies(items[i + 1], nameField, searchTerm, options) THEN i
  ELSE findIndexFrom(items, i + 1, nameField, searchTerm, options)

\* fuzzyFindIndex(items, nameField, searchTerm, options)
fuzzyFindIndex(items, nameField, searchTerm, options) ==
  findIndexFrom(items, 0, nameField, searchTerm, options)

\* The index is tested for truthiness: the first item is never returned.
fuzzyFind_Truthy(items, nameField, searchTerm, options) ==
  LET index == fuzzyFindIndex(items, nameField, searchTerm, options)
  IN  IF index > 0 THEN <<items[index + 1]>> ELSE <<>>

\* fuzzyFind(items, nameField, searchTerm, options): <<item>>, or <<>> for
\* undefined
fuzzyFind(items, nameField, searchTerm, options) ==
  LET index == fuzzyFindIndex(items, nameField, searchTerm, options)
  IN  IF index >= 0 THEN <<items[index + 1]>> ELSE <<>>

\* Array.prototype.filter
RECURSIVE filterFrom(_, _, _, _, _)
filterFrom(items, i, nameField, searchTerm, options) ==
  IF i > Len(items) THEN <<>>
  ELSE (IF Qualifies(items[i], nameField, searchTerm, options) THEN <<items[i]>> ELSE <<>>)
       \o filterFrom(items, i + 1, nameField, searchTerm, options)

\* fuzzyFindAll(items, nameField, searchTerm, options)
fuzzyFindAll(items, nameField, searchTerm, options) ==
  filterFrom(items, 1, nameField, searchTerm, options)

\* The names of the items of the lists that are searched.
ItemNames ==
  {Str(<<"a", "b">>), Str(<<" ", "A">>), Str(<<"b", "a", " ">>), Str(<<>>), Num}

\* The lists that are searched: the i-th item has the id i.
ItemLists ==
  {[i \in 1..Len(names) |-> FuzzyItem(names[i], i)] : names \in SeqsUpTo(ItemNames, MaxItems)}

\* The terms the lists are searched for.
ItemTerms == {<<>>, <<" ">>, <<"A", " ">>, <<"b">>, <<"a", "b">>}

\* The options the lists are searched with.
ItemOptions ==
  {o \in FuzzyMatchOptions : o.minScore = "undef" /\ o.exact # "false"}

NoOptions == [exact |-> "undef", startsWith |-> "undef", minScore |-> "undef"]

\* A context id: undefined, the empty string or an id.
IdValues(c) == {Undefined, Str(<<>>), Str(<<c>>)}

\* McpContext: the three ids
Contexts ==
  [athleteId : IdValues("a"), clientId : IdValues("b"), userId : IdValues("A")]

\* The operand of || counts as present.
Truthy(v) == v.type = "string" /\ v.val # <<>>

\* The ids are chained with ??: only undefined is passed over.
getEffectiveUserId_Nullish(context) ==
  IF context.athleteId.type # "undefined" THEN context.athleteId
  ELSE IF context.clientId.type # "undefined" THEN context.clientId
  ELSE context.userId

\* getEffectiveUserId(context): a || b || c is the first truthy operand, or
\* the last one
getEffectiveUserId(context) ==
  IF Truthy(context.athleteId) THEN context.athleteId
  ELSE IF Truthy(context.clientId) THEN context.clientId
  ELSE context.userId

\* What an operation throws: an Error with a message, or another value.
Thrown(kind, text) == [kind |-> kind, text |-> text]

ThrownValues ==
  {Thrown("Error", "db down"), Thrown("Error", ""), Thrown("string", "oops"),
   Thrown("number", "42"), Thrown("null", "null"), Thrown("undefined", "undefined")}

\* String(error)
StringOf(t) == t.text

\* error.message of a value that is not an Error is undefined.
ThrownText_MessageOnly(t) == IF t.kind = "Error" THEN t.text ELSE "undefined"

\* errorResult(error instanceof Error ? error : String(error)).error:
\* typeof error === 'string' ? error : error.message
ThrownText(t) == IF t.kind = "Error" THEN t.text ELSE StringOf(t)

\* How the operation handed to safeExecute settles.
Operations ==
  {[kind |-> "resolves", result |-> r, thrown |-> Thrown("none", "")] :
      r \in {successResult("Meal updated", NoUpdated), errorResult("no such meal")}}
  \cup {[kind |-> "throws", result |-> Pending, thrown |-> t] : t \in ThrownValues}

NoOperation == [kind |-> "none", result |-> Pending, thrown |-> Thrown("none", "")]

NoContext == [athleteId |-> Undefined, clientId |-> Undefined, userId |-> Undefined]

\* safeExecute(operation): what its promise settles with
safeExecute(operation) ==
  IF operation.kind = "resolves" THEN operation.result
  ELSE errorResult(ThrownText(operation.thrown))

\* One call of a helper: of the fuzzy matcher, with no context and no
\* operation.
HelperCall(fn, target, items, nameField, searchTerm, options) ==
  [fn |-> fn, target |-> target, items |-> items, nameField |-> nameField,
   searchTerm |-> searchTerm, options |-> options, context |-> NoContext,
   operation |-> NoOperation]

NoHelperCall == HelperCall("none", <<>>, <<>>, "", <<>>, NoOptions)

VARIABLES
  h_call,      \* the helper that is called and its arguments
  h_out        \* <<>> until the helper has returned, then <<its value>>

helperVars == <<h_call, h_out>>

\* A call of fuzzyMatch.
MatchInit ==
  \E t \in Strings(MaxStr), s \in Strings(MaxTerm), o \in FuzzyMatchOptions :
    h_call = HelperCall("fuzzyMatch", t, <<>>, "", s, o)

\* A call of fuzzyFindIndex, fuzzyFind or fuzzyFindAll.
FindInit ==
  \E fn \in {"fuzzyFindIndex", "fuzzyFind", "fuzzyFindAll"}, l \in ItemLists,
     f \in {"name", "label"}, s \in ItemTerms, o \in ItemOptions :
    h_call = HelperCall(fn, <<>>, l, f, s, o)

\* A call of getEffectiveUserId.
ContextInit ==
  \E c \in Contexts : h_call = [NoHelperCall EXCEPT !.fn = "getEffectiveUserId", !.context = c]

\* A call of safeExecute.
OperationInit ==
  \E o \in Operations : h_call = [NoHelperCall EXCEPT !.fn = "safeExecute", !.operation = o]

HelperInit ==
  /\ h_out = <<>>
  /\ MatchInit \/ FindInit \/ ContextInit \/ OperationInit

HelperIdle ==
  /\ h_call = NoHelperCall
  /\ h_out = <<>>

\* The helper returns value.
Returns(fn, value) ==
  /\ h_call.fn = fn
  /\ h_out = <<>>
  /\ h_out' = <<value>>
  /\ UNCHANGED h_call

FuzzyMatch ==
  Returns("fuzzyMatch", fuzzyMatch(h_call.target, h_call.searchTerm, h_call.options))

FuzzyFindIndex ==
  Returns("fuzzyFindIndex",
          fuzzyFindIndex(h_call.items, h_call.nameField, h_call.searchTerm, h_call.options))

FuzzyFind ==
  Returns("fuzzyFind",
          fuzzyFind(h_call.items, h_call.nameField, h_call.searchTerm, h_call.options))

FuzzyFindAll ==
  Returns("fuzzyFindAll",
          fuzzyFindAll(h_call.items, h_call.nameField, h_call.searchTerm, h_call.options))

GetEffectiveUserId == Returns("getEffectiveUserId", getEffectiveUserId(h_call.context))

SafeExecute == Returns("safeExecute", safeExecute(h_call.operation))

(***************************************************************************)
(* recalculateMacrosForDay(request): one call, followed from its request   *)
(* to its result. Macros are whole numbers; a quantity is counted in       *)
(* twentieths (0.05) of its unit.                                          *)
(***************************************************************************)
\* Most foods in the meal the model returns.
MaxFoods == 2

\* The four macros the tolerance is tested on.
MacroKeys == {"calories", "protein", "carbs", "fats"}

Macros(c, p, cb, f) == [calories |-> c, protein |-> p, carbs |-> cb, fats |-> f]
Food(id, foodItemId, quantity) ==
  [id |-> id, foodItemId |-> foodItemId, quantity |-> quantity]
Meal(totalMacros, foods) == [totalMacros |-> totalMacros, foods |-> foods]
MDay(n, meals) == [dayNumber |-> n, meals |-> meals]

\* A food of quantity 100 (2000 twentieths), as stored.
StoredFood == Food("f1", "item1", 2000)

\* day.meals of a stored day: on the target 20 of every macro, one off, beyond
\* the tolerance, and without carbs.
StoredMeals ==
  { << Meal(Macros(10, 10, 10, 10), <<StoredFood>>), Meal(Macros(10, 10, 10, 10), <<>>) >>,
    << Meal(Macros(10, 10, 10, 10), <<StoredFood>>), Meal(Macros(9, 9, 9, 9), <<>>) >>,
    << Meal(Macros(10, 10, 10, 10), <<StoredFood>>) >>,
    << Meal(Macros(10, 10, 0, 10), <<StoredFood>>), Meal(Macros(10, 10, 0, 10), <<>>) >> }

\* plan.targetMacros: a record of macros (<<>>: undefined)
TargetMacros == { <<Macros(20, 20, 20, 20)>>, <<Macros(20, 20, 0, 20)>>, <<>> }

\* The plans of the request: day 1 and day 2 in week 1, and in week 2 day 3 or
\* another day numbered 1.
RequestPlans ==
  {[targetMacros |-> t, updatedAt |-> "t0",
    weeks |-> << NWeek(1, << MDay(1, ms), MDay(2, <<Meal(Macros(5, 5, 5, 5), <<>>)>>) >>),
                 NWeek(2, << MDay(d, <<Meal(Macros(6, 6, 6, 6), <<>>)>>) >>) >>] :
     t \in TargetMacros, ms \in StoredMeals, d \in {1, 3}}

\* modifiedFood.foodItemId ("": undefined) and modifiedFoodId
Requests ==
  {[plan |-> pl, dayNumber |-> n, modifiedFoodId |-> id,
    modifiedFood |-> Food("f1", fi, 2000)] :
     pl \in RequestPlans, n \in {1, 2, 4}, id \in {"f1", "f9"}, fi \in {"", "item1"}}

\* The foods the model may return: the modified food as it is, its quantity
\* off by 0.05 and by 0.1, another food of the same item, of another item
\* and of none.
ModelFoods ==
  {Food("f1", "item1", 2000), Food("f1", "item1", 2001), Food("f1", "item1", 2002),
   Food("f2", "item1", 2000), Food("f2", "item2", 2000), Food("f2", "", 2000)}

\* What awaiting the model gives: an Error thrown (by getModelByTier, by the
\* stream), a value thrown that is no Error, no object, or a day.
ModelOutcomes ==
  {[kind |-> "throws", thrown |-> [isError |-> TRUE, message |-> m], day |-> MDay(0, <<>>)] :
     m \in {"model failed", ""}}
  \cup {[kind |-> "throws", thrown |-> [isError |-> FALSE, message |-> "aborted"],
         day |-> MDay(0, <<>>)]}
  \cup {[kind |-> "null", thrown |-> [isError |-> FALSE, message |-> ""], day |-> MDay(0, <<>>)]}
  \cup {[kind |-> "day", thrown |-> [isError |-> FALSE, message |-> ""],
         day |-> MDay(n, <<Meal(Macros(20, 20, 20, 20), fs)>>)] :
          n \in 1..2, fs \in SeqsUpTo(ModelFoods, MaxFoods)}

\* What normalizeAgentPayload does with the temp plan: it keeps the day,
\* returns no day, or throws.
NormOutcomes == {"kept", "dropped", "throws"}

NoRequest ==
  [plan |-> [targetMacros |-> <<>>, updatedAt |-> "", weeks |-> <<>>], dayNumber |-> 0,
   modifiedFoodId |-> "", modifiedFood |-> Food("", "", 0)]

NoModelOutcome ==
  [kind |-> "null", thrown |-> [isError |-> FALSE, message |-> ""], day |-> MDay(0, <<>>)]

VARIABLES
  m_req,      \* the request as passed
  m_plan,     \* the plan object of the request, as it is now
  m_env,      \* what the model and the normalizer will answer
  m_pc,       \* the call's position
  m_invoked,  \* calls of the model
  m_ret       \* the result (plan and error: <<>> when absent)

macroVars == <<m_req, m_plan, m_env, m_pc, m_invoked, m_ret>>

NoRecalcResult == [status |-> "pending", success |-> FALSE, plan |-> <<>>, error |-> <<>>]

RecalcInit ==
  /\ \E r \in Requests : m_req = r /\ m_plan = r.plan
  /\ \E mo \in ModelOutcomes : \E no \in NormOutcomes : m_env = [model |-> mo, norm |-> no]
  /\ m_pc = "start"
  /\ m_invoked = 0
  /\ m_ret = NoRecalcResult

\* No call of recalculateMacrosForDay.
RecalcIdle ==
  /\ m_req = NoRequest
  /\ m_plan = NoRequest.plan
  /\ m_env = [model |-> NoModelOutcome, norm |-> "kept"]
  /\ m_pc = "idle"
  /\ m_invoked = 0
  /\ m_ret = NoRecalcResult

\* return { success: false, error }
RecalcFailure(error) ==
  [status |-> "returned", success |-> FALSE, plan |-> <<>>, error |-> <<error>>]

\* return { success: true, plan }
RecalcSuccess(plan) ==
  [status |-> "returned", success |-> TRUE, plan |-> <<plan>>, error |-> <<>>]

\* The exception leaves recalculateMacrosForDay.
CatchResult_Rethrow(thrown) ==
  [status |-> "threw", success |-> FALSE, plan |-> <<>>, error |-> <<>>]

\* catch (error): error instanceof Error ? error.message : 'Unknown error
\* during recalculation'
CatchResult(thrown) ==
  RecalcFailure(IF thrown.isError THEN thrown.message
                ELSE "Unknown error during recalculation")

\* The TypeError of reading a property of undefined.
TypeError == [isError |-> TRUE, message |-> "Cannot read properties of undefined"]

\* All days of the plan, week after week.
RECURSIVE FlatDays(_, _)
FlatDays(weeks, i) ==
  IF i > Len(weeks) THEN <<>> ELSE weeks[i].days \o FlatDays(weeks, i + 1)

\* meals.flatMap((m) => m.foods), from meal i on
RECURSIVE FlatFoods(_, _)
FlatFoods(meals, i) ==
  IF i > Len(meals) THEN <<>> ELSE meals[i].foods \o FlatFoods(meals, i + 1)

\* array.find(pred): the first element that satisfies it (<<>>: undefined),
\* holds[i] telling whether s[i] does; from element i on
RECURSIVE FindFirst(_, _, _)
FindFirst(s, holds, i) ==
  IF i > Len(s) THEN <<>>
  ELSE IF holds[i] THEN <<s[i]>>
  ELSE FindFirst(s, holds, i + 1)

\* getNutritionPlanDay(plan, dayNumber): the day numbered dayNumber
PlanDay(plan, dayNumber) ==
  LET days == FlatDays(plan.weeks, 1)
  IN  FindFirst(days, [i \in 1..Len(days) |-> days[i].dayNumber = dayNumber], 1)

\* calculateDayMacros(day): the reduce over day.meals, from meal i on
RECURSIVE SumMacros(_, _)
SumMacros(meals, i) ==
  IF i > Len(meals) THEN Macros(0, 0, 0, 0)
  ELSE LET rest == SumMacros(meals, i + 1)
       IN  [k \in MacroKeys |-> meals[i].totalMacros[k] + rest[k]]

calculateDayMacros(day) == SumMacros(day.meals, 1)

\* calculateMacroDifference(current, target)
calculateMacroDifference(current, target) ==
  [k \in MacroKeys |-> target[k] - current[k]]

Abs(x) == IF x < 0 THEN 0 - x ELSE x

\* Math.abs(difference) / target <= tolerance, with tolerance 0.05: a
\* division by 0 gives NaN (0 / 0) or Infinity, which no <= holds for.
RatioWithin(difference, target) ==
  /\ target # 0
  /\ 20 * Abs(difference) <= target

\* caloriesDiff <= tolerance && proteinDiff <= tolerance && ...
WithinTolerance(macroDifference, targetMacros) ==
  \A k \in MacroKeys : RatioWithin(macroDifference[k], targetMacros[k])

RecalcFinish(r) ==
  /\ m_ret' = r
  /\ m_pc' = "done"

\* Lines 128-169: the day, its macros, the tolerance test.
RecalcStart ==
  /\ m_pc = "start"
  /\ LET day == PlanDay(m_plan, m_req.dayNumber)
     IN  IF day = <<>>
         THEN RecalcFinish(RecalcFailure("Day not found in plan"))
         ELSE IF m_plan.targetMacros = <<>>
         THEN RecalcFinish(CatchResult(TypeError))
         ELSE LET target == m_plan.targetMacros[1]
                  diff   == calculateMacroDifference(calculateDayMacros(day[1]), target)
              IN  IF WithinTolerance(diff, target)
                  THEN RecalcFinish(RecalcSuccess(m_plan))
                  ELSE /\ m_pc' = "model"
                       /\ UNCHANGED m_ret
  /\ UNCHANGED <<m_req, m_plan, m_env, m_invoked>>

\* Lines 172-197: the model is configured and called, its stream consumed;
\* no object throws 'Failed to generate recalculated day'
RecalcModel ==
  /\ m_pc = "model"
  /\ m_invoked' = m_invoked + 1
  /\ LET mo == m_env.model
     IN  CASE mo.kind = "throws" -> RecalcFinish(CatchResult(mo.thrown))
           [] mo.kind = "null" ->
                RecalcFinish(CatchResult([isError |-> TRUE,
                                          message |-> "Failed to generate recalculated day"]))
           [] OTHER -> m_pc' = "verify" /\ UNCHANGED m_ret
  /\ UNCHANGED <<m_req, m_plan, m_env>>

\* tempPlan.weeks[0]?.days: the days of the normalized temp plan
NormalizedDays(day, norm) == IF norm = "kept" THEN <<day>> ELSE <<>>

\* The food the check of lines 230-234 finds (<<>>: none)
ModifiedFoodStillPresent(day, modifiedFoodId, modifiedFood) ==
  LET foods == FlatFoods(day.meals, 1)
      Same(f) == \/ f.id = modifiedFoodId
                 \/ (modifiedFood.foodItemId # "" /\ f.foodItemId = modifiedFood.foodItemId)
  IN  FindFirst(foods, [i \in 1..Len(foods) |-> Same(foods[i])], 1)

\* Math.abs(found.quantity - modifiedFood.quantity) < 0.1, in twentieths
QuantityMatches(found, modifiedFood) == Abs(found.quantity - modifiedFood.quantity) < 2

\* plan.weeks.map(week => ({...week, days: week.days.map(d => d.dayNumber
\* === dayNumber ? recalculatedDay : d)}))
RecalcUpdatedWeeks(weeks, dayNumber, recalculatedDay) ==
  [i \in 1..Len(weeks) |->
     [weeks[i] EXCEPT !.days = ReplaceDay(@, dayNumber, recalculatedDay)]]

\* The weeks are assigned to the plan passed in.
PlanAfterUpdate_InPlace(plan, updatedWeeks) == [plan EXCEPT !.weeks = updatedWeeks]

\* The plan object of the request once updatedPlan is built: { ...plan,
\* weeks: updatedWeeks, updatedAt } is a new object, the plan is not written.
PlanAfterUpdate(plan, updatedWeeks) == plan

\* Lines 205-268: normalization, the two checks, the updated plan.
RecalcVerify ==
  /\ m_pc = "verify"
  /\ IF m_env.norm = "throws"
     THEN /\ RecalcFinish(CatchResult([isError |-> TRUE, message |-> "normalization failed"]))
          /\ UNCHANGED m_plan
     ELSE LET days  == NormalizedDays(m_env.model.day, m_env.norm)
              found == FindFirst(days, [i \in 1..Len(days) |->
                                          days[i].dayNumber = m_req.dayNumber], 1)
          IN  IF found = <<>>
              THEN /\ RecalcFinish(RecalcFailure("Failed to normalize recalculated day"))
                   /\ UNCHANGED m_plan
              ELSE LET food == ModifiedFoodStillPresent(found[1], m_req.modifiedFoodId,
                                                        m_req.modifiedFood)
                   IN  IF food = <<>>
                       THEN /\ RecalcFinish(RecalcFailure(
                                 "Modified food was lost during recalculation"))
                            /\ UNCHANGED m_plan
                       ELSE IF ~QuantityMatches(food[1], m_req.modifiedFood)
                       THEN /\ RecalcFinish(RecalcFailure(
                                 "Modified food quantity was altered during recalculation"))
                            /\ UNCHANGED m_plan
                       ELSE LET updatedWeeks ==
                                  RecalcUpdatedWeeks(m_plan.weeks, m_req.dayNumber, found[1])
                            IN  /\ m_plan' = PlanAfterUpdate(m_plan, updatedWeeks)
                                /\ RecalcFinish(RecalcSuccess(
                                     [m_plan EXCEPT !.weeks = updatedWeeks,
                                                    !.updatedAt = "now"]))
  /\ UNCHANGED <<m_req, m_env, m_invoked>>

(***************************************************************************)
(* Specifications                                                          *)
(***************************************************************************)
vars == <<agVars, svcVars, crudVars, helperVars, macroVars>>

\* No execute call is being followed.
AgIdle ==
  /\ args = [top |-> NoItem, batchPresent |-> FALSE, batch |-> <<>>,
             batchSupported |-> TRUE]
  /\ pc = "idle"
  /\ heap = <<>>
  /\ entity = 0
  /\ currentEntity = 0
  /\ modifications = <<>>
  /\ idx = 0
  /\ results = <<>>
  /\ inflight = <<>>
  /\ calls = <<>>
  /\ events = <<>>
  /\ saved = <<>>
  /\ env = [resolve |-> "pending", validate |-> "pending"]
  /\ ret = Pending

\* One call of an agentic tool's execute.
Init == AgInit /\ SvcInit /\ CrudIdle /\ HelperIdle /\ RecalcIdle

Next ==
  \/ Resolve /\ UNCHANGED <<svcVars, crudVars, helperVars, macroVars>>
  \/ ResolveThrows /\ UNCHANGED <<svcVars, crudVars, helperVars, macroVars>>
  \/ ValidateEntity /\ UNCHANGED <<svcVars, crudVars, helperVars, macroVars>>
  \/ ValidateThrows /\ UNCHANGED <<svcVars, crudVars, helperVars, macroVars>>
  \/ BuildModifications /\ UNCHANGED <<svcVars, crudVars, helperVars, macroVars>>
  \/ ItemRejected /\ UNCHANGED <<svcVars, crudVars, helperVars, macroVars>>
  \/ ItemInvoke /\ UNCHANGED <<svcVars, crudVars, helperVars, macroVars>>
  \/ HandlerSettle /\ UNCHANGED <<svcVars, crudVars, helperVars, macroVars>>
  \/ BeforeSaveAbsent /\ UNCHANGED <<svcVars, crudVars, helperVars, macroVars>>
  \/ BeforeSaveRuns /\ UNCHANGED <<svcVars, crudVars, helperVars, macroVars>>
  \/ BeforeSaveThrows /\ UNCHANGED <<svcVars, crudVars, helperVars, macroVars>>
  \/ SaveOk /\ UNCHANGED <<svcVars, crudVars, helperVars, macroVars>>
  \/ SaveThrows /\ UNCHANGED <<svcVars, crudVars, helperVars, macroVars>>
  \/ AfterSaveAndReturn /\ UNCHANGED <<svcVars, crudVars, helperVars, macroVars>>
  \/ AfterSaveThrows /\ UNCHANGED <<svcVars, crudVars, helperVars, macroVars>>

Spec == Init /\ [][Next]_vars

\* The callers of ModificationService against one store.
ServiceInit == AgIdle /\ SvcInit /\ CrudIdle /\ HelperIdle /\ RecalcIdle

ServiceNext ==
  \E p \in Procs :
    \/ SvcCall(p) /\ UNCHANGED <<agVars, crudVars, helperVars, macroVars>>
    \/ SvcFind(p) /\ UNCHANGED <<agVars, crudVars, helperVars, macroVars>>
    \/ SvcPrepare(p) /\ UNCHANGED <<agVars, crudVars, helperVars, macroVars>>
    \/ TxCreate(p) /\ UNCHANGED <<agVars, crudVars, helperVars, macroVars>>
    \/ TxUpdate(p) /\ UNCHANGED <<agVars, crudVars, helperVars, macroVars>>
    \/ TxCommit(p) /\ UNCHANGED <<agVars, crudVars, helperVars, macroVars>>
    \/ TxFails(p) /\ UNCHANGED <<agVars, crudVars, helperVars, macroVars>>
    \/ SvcRefetch(p) /\ UNCHANGED <<agVars, crudVars, helperVars, macroVars>>

ServiceSpec == ServiceInit /\ [][ServiceNext]_vars

\* One caller's single call, on any stored plan or program.
EditSpecInit == AgIdle /\ EditInit /\ CrudIdle /\ HelperIdle /\ RecalcIdle

EditNext ==
  \/ EditCall(1) /\ UNCHANGED <<agVars, crudVars, helperVars, macroVars>>
  \/ SvcFind(1) /\ UNCHANGED <<agVars, crudVars, helperVars, macroVars>>
  \/ SvcPrepare(1) /\ UNCHANGED <<agVars, crudVars, helperVars, macroVars>>
  \/ TxCreate(1) /\ UNCHANGED <<agVars, crudVars, helperVars, macroVars>>
  \/ TxUpdate(1) /\ UNCHANGED <<agVars, crudVars, helperVars, macroVars>>
  \/ TxCommit(1) /\ UNCHANGED <<agVars, crudVars, helperVars, macroVars>>
  \/ TxFails(1) /\ UNCHANGED <<agVars, crudVars, helperVars, macroVars>>
  \/ SvcRefetch(1) /\ UNCHANGED <<agVars, crudVars, helperVars, macroVars>>

EditSpec == EditSpecInit /\ [][EditNext]_vars

\* One call of a CRUD tool's execute.
CrudSpecInit == AgIdle /\ SvcInit /\ CrudInit /\ HelperIdle /\ RecalcIdle

CrudNext ==
  \/ CrudStart /\ UNCHANGED <<agVars, svcVars, helperVars, macroVars>>
  \/ CrudBatchUnknown /\ UNCHANGED <<agVars, svcVars, helperVars, macroVars>>
  \/ CrudBatchInvoke /\ UNCHANGED <<agVars, svcVars, helperVars, macroVars>>
  \/ CrudBatchSettle /\ UNCHANGED <<agVars, svcVars, helperVars, macroVars>>
  \/ CrudBatchDone /\ UNCHANGED <<agVars, svcVars, helperVars, macroVars>>
  \/ CrudSingleUnknown /\ UNCHANGED <<agVars, svcVars, helperVars, macroVars>>
  \/ CrudSingleInvoke /\ UNCHANGED <<agVars, svcVars, helperVars, macroVars>>
  \/ CrudSingleSettle /\ UNCHANGED <<agVars, svcVars, helperVars, macroVars>>

CrudSpec == CrudSpecInit /\ [][CrudNext]_vars

\* One call of a helper.
HelperSpecInit == AgIdle /\ SvcInit /\ CrudIdle /\ HelperInit /\ RecalcIdle

HelperNext ==
  \/ FuzzyMatch /\ UNCHANGED <<agVars, svcVars, crudVars, macroVars>>
  \/ FuzzyFindIndex /\ UNCHANGED <<agVars, svcVars, crudVars, macroVars>>
  \/ FuzzyFind /\ UNCHANGED <<agVars, svcVars, crudVars, macroVars>>
  \/ FuzzyFindAll /\ UNCHANGED <<agVars, svcVars, crudVars, macroVars>>
  \/ GetEffectiveUserId /\ UNCHANGED <<agVars, svcVars, crudVars, macroVars>>
  \/ SafeExecute /\ UNCHANGED <<agVars, svcVars, crudVars, macroVars>>

HelperSpec == HelperSpecInit /\ [][HelperNext]_vars

\* One call of recalculateMacrosForDay.
RecalcSpecInit == AgIdle /\ SvcInit /\ CrudIdle /\ HelperIdle /\ RecalcInit

RecalcNext ==
  \/ RecalcStart /\ UNCHANGED <<agVars, svcVars, crudVars, helperVars>>
  \/ RecalcModel /\ UNCHANGED <<agVars, svcVars, crudVars, helperVars>>
  \/ RecalcVerify /\ UNCHANGED <<agVars, svcVars, crudVars, helperVars>>

RecalcSpec == RecalcSpecInit /\ [][RecalcNext]_vars

(***************************************************************************)
(* The agentic engine's properties                                         *)
(***************************************************************************)
\* The item reaches its handler: its action is registered, its target
\* satisfies the target schema and, where the action has a changes schema
\* and the item carries changes, they satisfy it.
RefReaches(mod) ==
  /\ mod.action \in {"set_a", "set_b", "reset", "boom", "dirty"}
  /\ mod.target \in {"t", "t+"}
  /\ (mod.action \in {"set_a", "dirty"} /\ mod.changes # "undef")
       => mod.changes \in {"v1", "v2", "v1+"}

\* The item's handler throws, and the message it throws.
RefThrows(mod) == mod.action \in {"boom", "dirty"}
RefMessage(mod) == IF mod.action = "boom" THEN "bad weight" ELSE "late failure"

\* The item is reported as successful.
RefSucceeds(mod) == RefReaches(mod) /\ ~RefThrows(mod)

\* What the item's handler writes to the entity's fields.
RefChange(mod, c) ==
  CASE mod.action = "set_a" -> [c EXCEPT !.a = NewVal(@, mod.changes)]
    [] mod.action = "set_b" -> [c EXCEPT !.b = NewVal(@, mod.changes)]
    [] mod.action = "reset" -> [c EXCEPT !.a = 0]
    [] mod.action = "dirty" -> [c EXCEPT !.b = NewVal(@, mod.changes)]
    [] OTHER -> c

\* The fields after the first n items, counting the writes of the items
\* reported as successful (mode "successful") or of every item whose handler
\* ran (mode "reached").
RECURSIVE RefFold(_, _, _)
RefFold(mods, n, mode) ==
  IF n = 0 THEN InitialContent
  ELSE LET prev == RefFold(mods, n - 1, mode)
           m    == mods[n]
       IN  IF (mode = "successful" /\ RefSucceeds(m)) \/ (mode = "reached" /\ RefReaches(m))
           THEN RefChange(m, prev)
           ELSE prev

\* The object that is the current entity after the first n items: the one
\* resolved, or the one the last handler to return an entity returned.
RefRef(mods, n) ==
  1 + Cardinality({i \in 1..n : RefReaches(mods[i]) /\ mods[i].action = "set_b"})

SameFields(x, y) == x.a = y.a /\ x.b = y.b

\* The modification list of a request that names one.
RefList == IF args.batchPresent /\ args.batch # <<>> THEN args.batch ELSE <<args.top>>

Called(i) == \E k \in 1..Len(calls) : calls[k].item = i

LoopCompleted == modifications # <<>> /\ idx > Len(modifications)

\* C1: once the entity is resolved and validated, the list of N items is not
\* empty and the save has succeeded, there are exactly N outcome lines, the
\* i-th is the outcome of the i-th input item (it names its action and is a
\* success line exactly when the item succeeded), and the result execute
\* returns counts modificationsApplied + errors = N.
C1_OneOutcomePerItem ==
  saved # <<>> =>
    /\ Len(results) = Len(RefList)
    /\ \A i \in 1..Len(RefList) :
         /\ results[i][2] = RefList[i].action
         /\ results[i][1] = (IF RefSucceeds(RefList[i]) THEN "OK" ELSE "ERR")
    /\ ret.status = "returned" =>
         /\ ret.success
         /\ ret.message = results
         /\ ret.updated.modificationsApplied + ret.updated.errors = Len(RefList)

\* A returned batch of three: an unknown action, a handler that throws, a success.
C1_Witness ==
  /\ ret.status = "returned" /\ ret.success /\ Len(results) = 3
  /\ \E i, j, k \in 1..3 :
       /\ RefList[i].action = "nope"
       /\ RefList[j].action = "boom"
       /\ RefSucceeds(RefList[k])
  /\ ret.updated.modificationsApplied = 1 /\ ret.updated.errors = 2

\* C2: an item whose action is not registered yields one failure line, and
\* every other item of the batch, before or after it, that passes validation
\* has its handler invoked and its effect applied to the entity.
C2_UnknownActionDoesNotAbort ==
  LoopCompleted =>
    \A k \in 1..Len(modifications) :
      modifications[k].action \notin ActionNames =>
        /\ Len(results) = Len(modifications)
        /\ results[k] =
             IF modifications[k].action = "toString"
             THEN ErrLine("toString", "failed", "Cannot read properties of undefined")
             ELSE ErrLine(modifications[k].action, "Unknown action", "")
        /\ \A i \in 1..Len(modifications) : RefReaches(modifications[i]) => Called(i)
        /\ SameFields(heap[currentEntity],
                      RefFold(modifications, Len(modifications), "reached"))

\* An unknown action between two items whose handlers ran and wrote.
C2_Witness ==
  /\ LoopCompleted /\ Len(modifications) = 3
  /\ modifications[2].action = "nope"
  /\ RefSucceeds(modifications[1]) /\ RefSucceeds(modifications[3])
  /\ Called(1) /\ Called(3)
  /\ heap[currentEntity].a = 1 /\ heap[currentEntity].b = 1

\* C3: an exception a handler raises is recorded as one failure line that
\* carries the exception's message, and every later item is still processed:
\* execute never completes with fewer lines than items.
C3_HandlerExceptionRecorded ==
  /\ \A k \in 1..Len(results) :
       (RefReaches(modifications[k]) /\ RefThrows(modifications[k])) =>
         results[k] = ErrLine(modifications[k].action, "failed", RefMessage(modifications[k]))
  /\ (pc = "done" /\ modifications # <<>>) =>
       /\ Len(results) = Len(modifications)
       /\ \A i \in 1..Len(modifications) : RefReaches(modifications[i]) => Called(i)

\* A handler threw for the first item and the next item still succeeded.
C3_Witness ==
  /\ pc = "done" /\ ret.success /\ Len(modifications) >= 2
  /\ modifications[1].action = "boom" /\ RefSucceeds(modifications[2])
  /\ results[1] = ErrLine("boom", "failed", "bad weight")
  /\ results[2][1] = "OK"

\* C4 as claimed: the entity handed to saveEntity carries exactly the changes
\* of the items reported as successful and none of an item reported as failed.
C4_AsClaimed ==
  saved # <<>> =>
    SameFields(saved[1], RefFold(modifications, Len(modifications), "successful"))

\* C4, amended: the entity handed to saveEntity carries the changes of every
\* item reported as successful, none of an item that failed before its
\* handler ran or whose handler threw without writing, and what a handler
\* wrote in place before it threw.
C4_SavedCarriesHandlerWrites ==
  saved # <<>> =>
    SameFields(saved[1], RefFold(modifications, Len(modifications), "reached"))

\* Saved after a batch with two successes and a handler that threw.
C4_Witness ==
  /\ saved # <<>> /\ Len(modifications) = 3
  /\ \E i, j, k \in 1..3 :
       /\ i # j
       /\ RefSucceeds(modifications[i]) /\ RefSucceeds(modifications[j])
       /\ modifications[i].action = "set_a" /\ modifications[j].action = "set_b"
       /\ RefReaches(modifications[k]) /\ RefThrows(modifications[k])
  /\ saved[1].a # 0 /\ saved[1].b # 0

C9_NotFoundWritesNothing ==
  env.resolve = "null" =>
    /\ pc = "done"
    /\ ret = errorResult("entity not found")
    /\ events = <<"resolveEntity">>
    /\ calls = <<>>
    /\ saved = <<>>

\* The entity of a request with a batch of two was not found.
C9_Witness ==
  /\ env.resolve = "null" /\ pc = "done" /\ Len(args.batch) = 2
  /\ ~ret.success /\ ret.status = "returned"

\* C10: when validateEntity returns a string or false, execute returns a
\* failure with that reason (or 'Entity validation failed') and calls no
\* handler, no hook and no saveEntity; when it returns true the pipeline
\* goes on.
C10_ValidationGate ==
  /\ env.validate \in {"false", "plan is archived"} =>
       /\ pc = "done"
       /\ ret = errorResult(IF env.validate = "false" THEN "Entity validation failed"
                            ELSE env.validate)
       /\ events = <<"resolveEntity", "validateEntity">>
       /\ calls = <<>>
       /\ saved = <<>>
  /\ env.validate = "true" =>
       /\ pc # "validate"
       /\ ret.error \notin {"Entity validation failed", "plan is archived"}

\* The validator gave a reason for a request with a batch of two.
C10_Witness ==
  /\ env.validate = "plan is archived" /\ pc = "done" /\ Len(args.batch) = 2
  /\ ret.error = "plan is archived"

\* The request names no modification: args.action is undefined and args.batch
\* is undefined or empty.
RefEmptyRequest ==
  args.top.action = "none" /\ ~(args.batchPresent /\ Len(args.batch) > 0)

\* execute has returned the failure result with this error.
RefFailedWith(error) ==
  /\ pc = "done"
  /\ ret.status = "returned"
  /\ ~ret.success
  /\ ret.error = error

\* The steps that have run so far are among these.
RefOnlyRan(steps) == \A k \in 1..Len(events) : events[k] \in steps

\* C11 as stated: every request with no action and no non-empty batch ends
\* with the 'No modification specified' failure.
C11_AsClaimed ==
  (RefEmptyRequest /\ pc = "done") => RefFailedWith("No modification specified")

\* C11: when the entity resolves and passes validation and the request
\* carries no action and no non-empty batch, execute returns the
\* 'No modification specified' failure (success false) and invokes no
\* handler, no beforeSave, no saveEntity and no afterSave; when the entity is
\* missing or fails validation, that failure is returned instead.
C11_NoModificationSpecified ==
  (RefEmptyRequest /\ env.resolve = "entity" /\ env.validate \in {"absent", "true"}) =>
    /\ pc \in {"build", "done"}
    /\ pc = "done" =>
         /\ RefFailedWith("No modification specified")
         /\ RefOnlyRan({"resolveEntity", "validateEntity"})
         /\ calls = <<>> /\ inflight = <<>>
         /\ saved = <<>>
         /\ results = <<>>

\* A request with an empty batch and no action, refused after the entity was
\* resolved and had passed its validator.
C11_Witness ==
  /\ RefEmptyRequest /\ args.batchPresent
  /\ env.validate = "true"
  /\ RefFailedWith("No modification specified")

\* C12: when saveEntity throws, execute returns success false with the error
\* 'Save failed: ...', its message is the generic 'Modification failed'
\* instead of the items' outcome lines, it carries no counts, and afterSave
\* is not invoked.
C12_SaveFailure ==
  (\E k \in 1..Len(events) : events[k] = "saveEntity") /\ saved = <<>> =>
    /\ RefFailedWith("Save failed: db down")
    /\ ret.message = <<"Modification failed">>
    /\ ret.updated.modificationsApplied < 0
    /\ events[Len(events)] = "saveEntity"
    /\ RefOnlyRan({"resolveEntity", "validateEntity", "handler", "beforeSave", "saveEntity"})

\* The save failed after a batch of two whose items had both succeeded.
C12_Witness ==
  /\ RefFailedWith("Save failed: db down")
  /\ Len(results) = 2
  /\ \A i \in 1..2 : results[i][1] = "OK"

\* C13: whenever the item loop is reached and saveEntity succeeds, execute
\* returns success true whatever the number of failed items, with the outcome
\* lines in order as its message and the counts of succeeded and failed items.
C13_AsClaimed ==
  (pc = "done" /\ saved # <<>>) =>
    /\ ret.status = "returned"
    /\ ret.success
    /\ ret.message = results
    /\ ret.updated.modificationsApplied =
         Cardinality({i \in 1..Len(RefList) : RefSucceeds(RefList[i])})
    /\ ret.updated.errors =
         Cardinality({i \in 1..Len(RefList) : ~RefSucceeds(RefList[i])})

\* C14: for every input and every behaviour of resolveEntity, validateEntity,
\* the handlers, beforeSave, saveEntity and afterSave, execute completes by
\* returning a ModificationResult and never propagates an exception.
C14_AsClaimed == pc = "done" => ret.status = "returned"

\* The place of a step in the pipeline.
RefRank(step) ==
  CASE step = "resolveEntity" -> 1
    [] step = "validateEntity" -> 2
    [] step = "handler" -> 3
    [] step = "beforeSave" -> 4
    [] step = "saveEntity" -> 5
    [] step = "afterSave" -> 6

\* How many times a step has been invoked.
RefCount(step) == Cardinality({k \in 1..Len(events) : events[k] = step})

\* C15: the steps of one execute occur in the order resolveEntity,
\* validateEntity, the item handlers, beforeSave, saveEntity, afterSave, each
\* but the handlers at most once; beforeSave runs after every item has been
\* processed; saveEntity receives exactly the entity beforeSave returned;
\* afterSave runs only after saveEntity has succeeded, and when afterSave
\* fails the save stays as committed.
C15_PipelineOrder ==
  /\ \A j, k \in 1..Len(events) :
       j < k => /\ RefRank(events[j]) <= RefRank(events[k])
                /\ events[j] = events[k] => events[j] = "handler"
  /\ RefCount("beforeSave") > 0 => LoopCompleted /\ Len(results) = Len(modifications)
  /\ saved # <<>> =>
       /\ Len(saved) = 1
       /\ RefCount("saveEntity") = 1
       /\ saved[1].hooked = (RefCount("beforeSave") = 1)
       /\ RefCount("beforeSave") = 1 => saved[1] = heap[Len(heap)]
  /\ RefCount("afterSave") > 0 => saved # <<>>
  /\ (pc = "done" /\ ret.error = "afterSave failed") => Len(saved) = 1

\* Every step ran, two handlers among them, and afterSave failed after the
\* save.
C15_Witness ==
  /\ pc = "done" /\ ret.status = "threw" /\ ret.error = "afterSave failed"
  /\ RefCount("validateEntity") = 1 /\ RefCount("beforeSave") = 1
  /\ RefCount("handler") = 2
  /\ saved # <<>>

C17_OneHandlerAtATime ==
  /\ Len(inflight) <= 1
  /\ inflight # <<>> =>
       /\ pc = "handler"
       /\ inflight[1].item = idx
       /\ Len(results) = idx - 1
  /\ pc = "handler" => Len(inflight) = 1
  /\ \A j, k \in 1..Len(calls) : j < k => calls[j].item < calls[k].item

\* The third handler of a batch is in flight after the first two settled.
C17_Witness ==
  /\ pc = "handler" /\ idx = 3 /\ Len(calls) = 3 /\ Len(results) = 2

\* C18: a handler is invoked only for an item whose action is registered,
\* whose target passed validation and whose changes, when the action has a
\* changes schema and the item carries changes, passed validation; an item
\* that fails on one of these gets a failure line and no handler call, and
\* processing it leaves the current entity and every entity object as they
\* were.
C18_RejectedItemsReachNoHandler ==
  /\ [](/\ \A k \in 1..Len(calls) : RefReaches(modifications[calls[k].item])
        /\ \A i \in 1..Len(results) :
             ~RefReaches(modifications[i]) => ~Called(i) /\ results[i][1] = "ERR")
  /\ [][(pc = "loop" /\ idx <= Len(modifications) /\ ~RefReaches(modifications[idx])) =>
          /\ heap' = heap
          /\ currentEntity' = currentEntity
          /\ calls' = calls
          /\ idx' = idx + 1]_vars

\* An item with an invalid target was refused between two items that wrote,
\* and the entity carries both writes.
C18_Witness ==
  /\ Len(modifications) = 3 /\ Len(results) = 3
  /\ modifications[2].target = "bad"
  /\ Called(1) /\ ~Called(2) /\ Called(3)
  /\ heap[currentEntity].a = 2 /\ heap[currentEntity].b = 1

\* The changes a handler is handed for an item.
RefHanded(mod) ==
  IF mod.action \in {"set_a", "dirty"} /\ mod.changes # "undef"
  THEN (IF mod.changes = "v1+" THEN "v1" ELSE mod.changes)
  ELSE mod.changes

\* C19: the changes handed to a handler are the schema-parsed changes when
\* the action has a changes schema and the item carries changes, and the
\* item's changes as supplied (unvalidated, possibly absent) otherwise; an
\* item without changes never fails changes validation.
C19_ChangesHanded ==
  /\ \A k \in 1..Len(calls) : calls[k].changes = RefHanded(modifications[calls[k].item])
  /\ \A i \in 1..Len(results) :
       modifications[i].changes = "undef" =>
         /\ results[i][3] # "Invalid changes"
         /\ (modifications[i].action \in {"set_a", "set_b", "reset", "boom", "dirty"}
             /\ modifications[i].target \in {"t", "t+"}) => Called(i)

\* Three handlers were called: one with a changes schema and no changes, one
\* without a schema handed the payload as supplied, one handed the parsed
\* payload.
C19_Witness ==
  /\ Len(calls) = 3
  /\ calls[1].action = "set_a" /\ calls[1].changes = "undef"
  /\ calls[2].action = "set_b" /\ calls[2].changes = "v1+"
  /\ calls[3].action = "set_a" /\ modifications[3].changes = "v1+"
  /\ calls[3].changes = "v1"

\* The list without the items that repeat the item just before them.
RECURSIVE RefOnce(_)
RefOnce(mods) ==
  IF Len(mods) <= 1 THEN mods
  ELSE IF mods[Len(mods)] = mods[Len(mods) - 1] THEN RefOnce(SubSeq(mods, 1, Len(mods) - 1))
  ELSE Append(RefOnce(SubSeq(mods, 1, Len(mods) - 1)), mods[Len(mods)])

\* C26: with handlers that overwrite fields from the changes payload, the
\* handler of an item that repeats the item just before it leaves the field
\* values of the current entity as they were, and the entity saved after a
\* batch has the field values it has after the batch with each such
\* repetition left out.
C26_RepetitionAddsNothing ==
  /\ [](saved # <<>> =>
          SameFields(saved[1],
                     RefFold(RefOnce(modifications), Len(RefOnce(modifications)), "reached")))
  /\ [][(pc = "handler" /\ idx > 1 /\ modifications[idx] = modifications[idx - 1]) =>
          SameFields(heap'[currentEntity'], heap[currentEntity])]_vars

\* set_a v2, then set_b v1 twice, the second call on the entity the first
\* returned: the saved entity has a = 2 and b = 1.
C26_Witness ==
  /\ saved # <<>> /\ Len(calls) = 3
  /\ modifications[1].action = "set_a"
  /\ modifications[2].action = "set_b" /\ modifications[3] = modifications[2]
  /\ calls[3].entity # calls[2].entity
  /\ saved[1].a = 2 /\ saved[1].b = 1

\* C29: a tool created with batchSupported false never applies the items of
\* a batch argument: no handler is invoked for a call that carries a
\* non-empty batch.
C29_AsClaimed ==
  (~args.batchSupported /\ args.batchPresent /\ Len(args.batch) > 0) => calls = <<>>

\* C30: when a request carries a top-level action and a non-empty batch, the
\* modification list is exactly the batch: every outcome line and every
\* handler call is that of a batch item, and the saved entity carries the
\* writes of the batch items only; the top-level action is the list when the
\* batch is absent or empty.
C30_BatchOverTopLevel ==
  modifications # <<>> =>
    /\ (args.batchPresent /\ Len(args.batch) > 0) =>
         /\ modifications = args.batch
         /\ Len(results) <= Len(args.batch)
         /\ \A i \in 1..Len(results) : results[i][2] = args.batch[i].action
         /\ \A k \in 1..Len(calls) :
              /\ calls[k].item <= Len(args.batch)
              /\ calls[k].action = args.batch[calls[k].item].action
         /\ saved # <<>> =>
              SameFields(saved[1], RefFold(args.batch, Len(args.batch), "reached"))
    /\ ~(args.batchPresent /\ Len(args.batch) > 0) =>
         /\ args.top.action # "none"
         /\ modifications = <<args.top>>

\* A request with the top-level action set_a and a batch of one set_b: one
\* line, and the saved entity has the write of set_b only.
C30_Witness ==
  /\ args.top.action = "set_a" /\ args.batch = <<[action |-> "set_b", target |-> "t",
                                                  changes |-> "v1"]>>
  /\ pc = "done" /\ ret.success
  /\ Len(results) = 1 /\ results[1][2] = "set_b"
  /\ saved[1].a = 0 /\ saved[1].b = 1

(***************************************************************************)
(* The persistence cycle's properties                                      *)
(***************************************************************************)
LiveNext(op) == IF op = "nutrition" THEN nutrition_plans' ELSE workout_programs'
VersionsNext(op) ==
  IF op = "nutrition" THEN nutrition_plan_versions' ELSE workout_program_versions'

\* The step in which caller p's transaction commits.
CommitStep(p) == spc[p] = "tx_updated" /\ spc'[p] = "refetch"

\* The snapshot of a row by a user: its version and every field.
RefSnapshot(row, userId) ==
  [entityId |-> row.id, version |-> row.version, name |-> row.name,
   weeks |-> row.weeks, createdBy |-> userId]

\* The commit of p adds one snapshot, that of the live row as it is when the
\* commit lands, made by the acting user.
SnapshotOfLive(p) ==
  VersionsNext(call[p].op) =
    Append(Versions(call[p].op), RefSnapshot(Live(call[p].op), call[p].userId))

\* C6: a cycle on whose entity no other cycle committed between its read and
\* its commit leaves, when it commits, the live version at the version it read
\* plus 1, and exactly one new snapshot, which records the version and the
\* fields the live entity had immediately before the commit and the acting
\* userId as createdBy.
C6_CommitSnapshotsPriorState ==
  [][\A p \in Procs :
       (CommitStep(p) /\ ~overlapped[p]) =>
         /\ LiveNext(call[p].op).version = local[p].version + 1
         /\ LiveNext(call[p].op).version = Live(call[p].op).version + 1
         /\ SnapshotOfLive(p)]_vars

\* A caller has just committed the entity's second edit, after the other
\* caller's cycle on the same entity had ended.
C6_Witness ==
  \E p \in Procs : \E q \in Procs \ {p} :
    /\ spc[p] = "refetch" /\ ~overlapped[p]
    /\ call[q].op = call[p].op /\ outcome[q] = "ok" /\ spc[q] = "idle"
    /\ Live(call[p].op).version = 3
    /\ Len(Versions(call[p].op)) = 2
    /\ Versions(call[p].op)[2].version = 2

\* C7: in every state other connections see, also after a statement of the
\* transaction failed, each entity has as many snapshots as its live version
\* has grown (no snapshot without its update, no update without its
\* snapshot), and within a transaction the update runs only after the create.
C7_SnapshotAndUpdateAtomic ==
  /\ \A op \in Ops :
       Len(Versions(op)) = Live(op).version - (IF op = "nutrition" THEN InitialPlan.version
                                                ELSE InitialProgram.version)
  /\ \A p \in Procs : tx[p].upd # <<>> => tx[p].snap # <<>>

\* A transaction failed at its update, after its create, and another one
\* committed.
C7_Witness ==
  \E p \in Procs : \E q \in Procs \ {p} :
    /\ outcome[p] = "update failed"
    /\ outcome[q] = "ok" /\ call[q].op = call[p].op
    /\ Len(Versions(call[p].op)) = 1
    /\ Live(call[p].op).version = 2

\* C8 as claimed: under any interleaving of cycles on one entity, every
\* snapshot records the version and the full state the live entity had
\* immediately before that commit's update landed.
C8_AsClaimed ==
  [][\A p \in Procs : CommitStep(p) => SnapshotOfLive(p)]_vars

\* Caller p's call names the stored entity and a user who does not own it.
RefForeignCall(p) ==
  /\ call[p].id = Live(call[p].op).id
  /\ call[p].userId # Live(call[p].op).userId

\* C20: a call of modifyNutritionDay or modifyWorkoutWeek whose userId is not
\* the owner's fails with Unauthorized at the ownership check and writes
\* nothing: the step that ends it leaves the live rows (version included) and
\* the snapshots as they are, and the call never opens a transaction.
C20_UnauthorizedWritesNothing ==
  /\ [](\A p \in Procs :
          RefForeignCall(p) =>
            /\ spc[p] \in {"find", "idle"}
            /\ tx[p] = NoTx
            /\ spc[p] = "idle" => outcome[p] = "Unauthorized")
  /\ [][\A p \in Procs :
          (RefForeignCall(p) /\ spc[p] = "find" /\ spc'[p] # "find") =>
            /\ spc'[p] = "idle"
            /\ outcome'[p] = "Unauthorized"
            /\ UNCHANGED storeVars]_vars

\* A user who is not the owner was refused on an entity the owner had
\* modified once: it is still at version 2 with one snapshot.
C20_Witness ==
  \E p \in Procs :
    /\ RefForeignCall(p) /\ call[p].userId = "u2"
    /\ outcome[p] = "Unauthorized"
    /\ Live(call[p].op).version = 2
    /\ Len(Versions(call[p].op)) = 1

\* The sequence s is the start of the sequence t.
RefPrefix(s, t) == Len(s) <= Len(t) /\ \A i \in 1..Len(s) : t[i] = s[i]

\* C21: over any sequence of operations the snapshots of an entity only
\* grow: every step keeps each existing snapshot as it is and in its place,
\* removes none, and never lowers the live version.
C21_SnapshotsAppendOnly ==
  [][\A op \in Ops :
       /\ RefPrefix(Versions(op), VersionsNext(op))
       /\ LiveNext(op).version >= Live(op).version]_vars

\* Two commits on the nutrition plan: two snapshots, the first still the one
\* of version 1, and the live plan at version 3.
C21_Witness ==
  /\ Len(nutrition_plan_versions) = 2
  /\ nutrition_plan_versions[1].version = 1
  /\ nutrition_plans.version = 3

(***************************************************************************)
(* The CRUD tool's properties                                              *)
(***************************************************************************)
\* The tool has a handler for the operation.
RefConfigured(op) == op \in {"create", "update", "delete"}

\* The handler of the i-th batch item has been called.
CrudCalled(i) == \E k \in 1..Len(crud_calls) : crud_calls[k].item = i

\* The first batch item whose operation has no handler or whose handler
\* returns success false (0: there is none).
RefFirstFailing ==
  LET F == {i \in 1..Len(crud_args.batch) :
              \/ ~RefConfigured(crud_args.batch[i].operation)
              \/ crud_env.batch[i] = "fail"}
  IN  IF F = {} THEN 0 ELSE CHOOSE i \in F : \A j \in F : i <= j

\* The failures that name an operation.
RefFailuresNaming(op) ==
  {"Unknown operation in batch: " \o op,
   "Batch failed at operation " \o op \o ": refused " \o op,
   "Batch failed at operation " \o op \o ": undefined"}

\* C22: in a batch of a CRUD tool that supports batches, the handlers are
\* invoked in batch order up to and including the first item whose operation
\* has no handler or whose handler returns success false and for no later
\* item, the result is then a failure naming that operation and what the
\* earlier items wrote stays; the result is a success, with the N messages in
\* input order, only when all N items succeed.
C22_AsClaimed ==
  (crud_pc = "done" /\ Len(crud_args.batch) > 0 /\ crud_args.batchSupported) =>
    LET f == RefFirstFailing
        N == Len(crud_args.batch)
    IN  /\ \A k \in 1..Len(crud_calls) : crud_calls[k].item = k
        /\ f > 0 =>
             /\ \A i \in 1..(f - 1) : CrudCalled(i)
             /\ RefConfigured(crud_args.batch[f].operation) => CrudCalled(f)
             /\ \A i \in (f + 1)..N : ~CrudCalled(i)
             /\ crud_ret.status = "returned" /\ ~crud_ret.success
             /\ crud_ret.error \in RefFailuresNaming(crud_args.batch[f].operation)
             /\ Len(crud_effects) = f - 1
             /\ \A i \in 1..(f - 1) : crud_effects[i].item = i
        /\ (crud_ret.status = "returned" /\ crud_ret.success) =>
             /\ \A i \in 1..N : crud_env.batch[i] = "ok"
             /\ Len(crud_ret.updated.results) = N
             /\ \A i \in 1..N :
                  crud_ret.updated.results[i] = "done " \o crud_args.batch[i].operation

(***************************************************************************)
(* The helpers' properties                                                 *)
(***************************************************************************)
\* The string lower-cased and without the white space around it.
RefNorm(s) ==
  LET low  == [i \in 1..Len(s) |-> IF s[i] = "A" THEN "a" ELSE s[i]]
      inks == {i \in 1..Len(s) : s[i] # " "}
      from == CHOOSE i \in inks : \A j \in inks : i <= j
      to   == CHOOSE i \in inks : \A j \in inks : i >= j
  IN  IF inks = {} THEN <<>> ELSE [i \in 1..(to - from + 1) |-> low[from + i - 1]]

RefIsPrefix(p, s) == Len(p) <= Len(s) /\ \A i \in 1..Len(p) : s[i] = p[i]

RefContains(s, p) ==
  \E k \in 0..(Len(s) - Len(p)) : \A i \in 1..Len(p) : s[k + i] = p[i]

\* The reference match: equality when exact is set, otherwise the prefix test
\* when startsWith is set, otherwise containment.
RefMatch(target, term, options) ==
  IF options.exact = "true" THEN RefNorm(target) = RefNorm(term)
  ELSE IF options.startsWith = "true" THEN RefIsPrefix(RefNorm(term), RefNorm(target))
  ELSE RefContains(RefNorm(target), RefNorm(term))

\* The helper called has returned.
Returned(fn) == h_call.fn = fn /\ h_out # <<>>

RefQualifying ==
  {i \in 1..Len(h_call.items) :
     /\ h_call.nameField = "name"
     /\ h_call.items[i].name.type = "string"
     /\ RefMatch(h_call.items[i].name.val, h_call.searchTerm, h_call.options)}

RefFirst(S) == CHOOSE i \in S : \A j \in S : i <= j

\* C24: fuzzyFindIndex returns the smallest index (from 0) of an item whose
\* named field is a string that matches the term and -1 when there is none,
\* items whose field is not a string being passed over; fuzzyFind returns
\* the item at that index, undefined for -1; fuzzyFindAll returns all the
\* qualifying items in their original order.
C24_FuzzyFindReference ==
  /\ Returned("fuzzyFindIndex") =>
       h_out[1] = (IF RefQualifying = {} THEN 0 - 1 ELSE RefFirst(RefQualifying) - 1)
  /\ Returned("fuzzyFind") =>
       h_out[1] = (IF RefQualifying = {} THEN <<>>
                   ELSE <<h_call.items[RefFirst(RefQualifying)]>>)
  /\ Returned("fuzzyFindAll") =>
       /\ Len(h_out[1]) = Cardinality(RefQualifying)
       /\ \A k \in 1..Len(h_out[1]) :
            /\ h_out[1][k].id \in RefQualifying
            /\ h_out[1][k] = h_call.items[h_out[1][k].id]
       /\ \A j, k \in 1..Len(h_out[1]) : j < k => h_out[1][j].id < h_out[1][k].id

\* fuzzyFind passed over a number and a string that does not match and
\* returned the third item.
C24_Witness ==
  /\ Returned("fuzzyFind")
  /\ Len(h_call.items) = 3
  /\ h_call.items[1].name.type = "number"
  /\ h_call.items[2].name = [type |-> "string", val |-> <<"a", "b">>]
  /\ h_call.searchTerm = <<"b">> /\ h_call.options.startsWith = "true"
  /\ h_out[1] = <<h_call.items[3]>>

\* The term is empty or white space only.
RefBlank(s) == \A i \in 1..Len(s) : s[i] = " "

\* The positions (from 1) of the items whose named field is a string.
RefStrings ==
  {i \in 1..Len(h_call.items) :
     h_call.nameField = "name" /\ h_call.items[i].name.type = "string"}

\* C25: an empty or white-space-only term matches every string target in
\* the default mode and in the startsWith mode, so fuzzyFindIndex with such a
\* term returns the index of the first item whose field is a string.
C25_BlankTermMatchesAll ==
  (RefBlank(h_call.searchTerm) /\ h_call.options.exact # "true") =>
    /\ Returned("fuzzyMatch") => h_out[1] = TRUE
    /\ Returned("fuzzyFindIndex") =>
         h_out[1] = (IF RefStrings = {} THEN 0 - 1 ELSE RefFirst(RefStrings) - 1)

\* A white-space term in startsWith mode: fuzzyFindIndex passed over a number
\* and returned the index of the string after it.
C25_Witness ==
  /\ Returned("fuzzyFindIndex")
  /\ h_call.searchTerm = <<" ">> /\ h_call.options.startsWith = "true"
  /\ Len(h_call.items) = 2
  /\ h_call.items[1].name.type = "number"
  /\ h_call.items[2].name = [type |-> "string", val |-> <<"a", "b">>]
  /\ h_out[1] = 1

\* C27 as stated, an id being set when it is not undefined: athleteId when
\* set, otherwise clientId when set, otherwise userId.
C27_AsClaimed ==
  Returned("getEffectiveUserId") =>
    h_out[1] = (IF h_call.context.athleteId.type = "string" THEN h_call.context.athleteId
                ELSE IF h_call.context.clientId.type = "string" THEN h_call.context.clientId
                ELSE h_call.context.userId)

\* The id is a string of at least one character.
RefNonEmpty(v) == v.type = "string" /\ Len(v.val) > 0

\* C27: getEffectiveUserId returns athleteId when it is a non-empty string,
\* otherwise clientId when it is a non-empty string, otherwise userId as it
\* is (undefined or empty when userId is): an id set to the empty string is
\* passed over like one that is not set.
C27_EffectiveUserId ==
  Returned("getEffectiveUserId") =>
    LET c == h_call.context
    IN  /\ RefNonEmpty(c.athleteId) => h_out[1] = c.athleteId
        /\ (~RefNonEmpty(c.athleteId) /\ RefNonEmpty(c.clientId)) => h_out[1] = c.clientId
        /\ (~RefNonEmpty(c.athleteId) /\ ~RefNonEmpty(c.clientId)) => h_out[1] = c.userId

\* athleteId is the empty string and clientId an id: clientId is returned.
C27_Witness ==
  /\ Returned("getEffectiveUserId")
  /\ h_call.context.athleteId = [type |-> "string", val |-> <<>>]
  /\ h_call.context.clientId = [type |-> "string", val |-> <<"b">>]
  /\ h_out[1] = h_call.context.clientId

\* C28: safeExecute never rejects: when the operation resolves it returns
\* the operation's own result unchanged, and when the operation throws it
\* returns a result with success false, the message 'Modification failed' and
\* as error the message of the Error thrown, or the string form of another
\* value thrown.
C28_SafeExecute ==
  Returned("safeExecute") =>
    LET o == h_call.operation
    IN  /\ h_out[1].status = "returned"
        /\ o.kind = "resolves" => h_out[1] = o.result
        /\ o.kind = "throws" =>
             /\ ~h_out[1].success
             /\ h_out[1].message = <<"Modification failed">>
             /\ h_out[1].error = o.thrown.text

\* The operation threw the string 'oops'.
C28_Witness ==
  /\ Returned("safeExecute")
  /\ h_call.operation.kind = "throws"
  /\ h_call.operation.thrown = [kind |-> "string", text |-> "oops"]
  /\ ~h_out[1].success /\ h_out[1].error = "oops"

\* C31: execute of a CRUD tool never rejects: once it has finished it has
\* returned a result, and when a handler it invoked threw, for the single
\* operation or for an item of the batch, that result has success false.
C31_AsClaimed ==
  crud_pc = "done" =>
    /\ crud_ret.status = "returned"
    /\ (\E k \in 1..Len(crud_calls) :
          LET c == crud_calls[k]
          IN  (IF c.item = 0 THEN crud_env.top ELSE crud_env.batch[c.item]) = "throw")
         => ~crud_ret.success

(***************************************************************************)
(* Concurrent cycles on one entity                                         *)
(***************************************************************************)
\* The live entity holds the edit of the call c: the day (the week) numbered
\* as the call asked carries the call's content.
RefHoldsEdit(c) ==
  IF c.op = "nutrition"
  THEN \E i \in 1..Len(nutrition_plans.weeks) :
         \E j \in 1..Len(nutrition_plans.weeks[i].days) :
           nutrition_plans.weeks[i].days[j] = [dayNumber |-> c.number, meals |-> c.content]
  ELSE \E i \in 1..Len(workout_programs.weeks) :
         workout_programs.weeks[i] = [weekNumber |-> c.number, content |-> c.content]

\* C32: no lost update. When exactly two cycles have run, one of each caller,
\* on the same entity and on different days (different weeks), and both
\* committed, whatever their interleaving, the live entity holds both edits.
C32_AsClaimed ==
  (/\ ncalls = 2
   /\ \A p \in Procs : spc[p] = "idle" /\ outcome[p] = "ok"
   /\ call[1].op = call[2].op
   /\ call[1].number # call[2].number)
    => \A p \in Procs : RefHoldsEdit(call[p])

\* C33: in every reachable state no two snapshots of an entity carry the same
\* version number, and every snapshot's version is below the live version.
C33_AsClaimed ==
  \A op \in Ops :
    /\ \A i, j \in 1..Len(Versions(op)) :
         i # j => Versions(op)[i].version # Versions(op)[j].version
    /\ \A i \in 1..Len(Versions(op)) : Versions(op)[i].version < Live(op).version

(***************************************************************************)
(* One call's effect on the stored plan or program                         *)
(***************************************************************************)
\* The single call has just committed: local[1] is the row it read and the
\* live row is the one it wrote.
Committed(op) == spc[1] = "refetch" /\ call[1].op = op

\* The modified day, and the modified week, the call carries.
RefModifiedDay == [dayNumber |-> call[1].dataNumber, meals |-> call[1].content]
RefModifiedWeek == [weekNumber |-> call[1].dataNumber, content |-> call[1].content]

\* The days of the first k weeks.
RECURSIVE RefDaysUpTo(_, _)
RefDaysUpTo(weeks, k) ==
  IF k = 0 THEN 0 ELSE Len(weeks[k].days) + RefDaysUpTo(weeks, k - 1)

\* The position of the week the cumulative day count locates for day n: the
\* first week up to which the plan has n days or more.
RefLocatedWeek(weeks, n) ==
  CHOOSE i \in 1..Len(weeks) :
    /\ RefDaysUpTo(weeks, i) >= n
    /\ \A k \in 1..(i - 1) : RefDaysUpTo(weeks, k) < n

\* C34: a modifyNutritionDay that commits has replaced the requested day:
\* whatever the plan and the dayNumber in 1..totalDays, the committed plan
\* holds the modified day at a place where the plan read held a day numbered
\* dayNumber, and the plan's weeks are not left as they were.
C34_AsClaimed ==
  Committed("nutrition") =>
    LET pre  == local[1].weeks
        post == nutrition_plans.weeks
    IN  /\ call[1].number \in 1..RefDaysUpTo(pre, Len(pre))
        /\ post # pre
        /\ \E i \in 1..Len(pre) : \E j \in 1..Len(pre[i].days) :
             /\ pre[i].days[j].dayNumber = call[1].number
             /\ post[i].days[j] = RefModifiedDay

RefWeeksNumbered(weeks, n) == {i \in 1..Len(weeks) : weeks[i].weekNumber = n}

\* The modifyWorkoutWeek call has read a program and asks for a week number
\* within 1..weeks.length that no week of the program carries.
RefNoSuchWeek ==
  /\ call[1].op = "workout"
  /\ spc[1] = "prepare"
  /\ call[1].number \in 1..Len(local[1].weeks)
  /\ RefWeeksNumbered(local[1].weeks, call[1].number) = {}

\* The store is as it was before any call: no snapshot, and the versions of
\* the rows as stored.
RefNothingWritten ==
  /\ nutrition_plan_versions = <<>> /\ workout_program_versions = <<>>
  /\ nutrition_plans.version = 1 /\ workout_programs.version = 1

C37_FailureWritesNothing ==
  /\ [][spc'[1] # "refetch" => UNCHANGED storeVars]_vars
  /\ []((spc[1] = "idle" /\ outcome[1] \notin {"none", "ok"}) => RefNothingWritten)

\* The commit of the transaction failed after its create and its update ran.
C37_Witness ==
  /\ spc[1] = "idle" /\ outcome[1] = "commit failed"
  /\ RefNothingWritten

(***************************************************************************)
(* The macro recalculator's properties                                     *)
(***************************************************************************)
\* The days of the requested plan numbered as requested.
RefRequestedDays ==
  {<<i, j>> \in (1..Len(m_req.plan.weeks)) \X (1..2) :
     /\ j <= Len(m_req.plan.weeks[i].days)
     /\ m_req.plan.weeks[i].days[j].dayNumber = m_req.dayNumber}

\* The model was called and gave no day that passes every check: it threw,
\* returned no object, the normalizer threw or lost the day, or the day
\* carries another number.
RefNoUsableDay ==
  \/ m_env.model.kind # "day"
  \/ m_env.norm # "kept"
  \/ m_env.model.day.dayNumber # m_req.dayNumber

\* C38: recalculateMacrosForDay never throws: the call always ends by
\* returning a result; when the day is not found, or the model was called
\* and threw or gave no usable day, that result has success false; every
\* result with success false carries an error message and no plan; and the
\* plan passed in is at every moment as it was passed.
C38_NeverThrows ==
  /\ m_plan = m_req.plan
  /\ m_pc = "done" =>
       /\ m_ret.status = "returned"
       /\ RefRequestedDays = {} => ~m_ret.success
       /\ (m_invoked > 0 /\ RefNoUsableDay) => ~m_ret.success
       /\ ~m_ret.success => (Len(m_ret.error) = 1 /\ m_ret.plan = <<>>)
       /\ m_ret.success => (Len(m_ret.plan) = 1 /\ m_ret.error = <<>>)

\* The model threw a value that is no Error: the call returned the failure
\* 'Unknown error during recalculation'.
C38_Witness ==
  /\ m_pc = "done" /\ m_invoked = 1
  /\ m_env.model.kind = "throws" /\ ~m_env.model.thrown.isError
  /\ m_ret = [status |-> "returned", success |-> FALSE, plan |-> <<>>,
              error |-> <<"Unknown error during recalculation">>]

\* The food f is the modified food of the request, by its id or by its
\* foodItemId, and its quantity is the modified food's to within 0.1.
RefIsModifiedFood(f) ==
  /\ \/ f.id = m_req.modifiedFoodId
     \/ (m_req.modifiedFood.foodItemId # "" /\ f.foodItemId = m_req.modifiedFood.foodItemId)
  /\ f.quantity - m_req.modifiedFood.quantity \in (0 - 1)..1

\* The day holds the modified food.
RefHoldsModifiedFood(day) ==
  \E a \in 1..Len(day.meals) : \E b \in 1..Len(day.meals[a].foods) :
    RefIsModifiedFood(day.meals[a].foods[b])

\* The sum of macro k over the day's meals.
RECURSIVE RefTotal(_, _, _)
RefTotal(day, k, n) ==
  IF n = 0 THEN 0 ELSE day.meals[n].totalMacros[k] + RefTotal(day, k, n - 1)

\* Every one of the four macros of the day is within 5% of its target.
RefWithinTolerance(day, target) ==
  \A k \in {"calories", "protein", "carbs", "fats"} :
    LET off == target[k] - RefTotal(day, k, Len(day.meals))
    IN  20 * off <= target[k] /\ 20 * (0 - off) <= target[k]

\* A success that returns a recalculated plan: every day of the requested
\* plan numbered as requested is replaced by a day that holds the modified
\* food, and every other day and every week's number is as in the request.
RefRecalculated ==
  LET pre  == m_req.plan.weeks
      post == m_ret.plan[1].weeks
  IN  /\ RefRequestedDays # {}
      /\ Len(post) = Len(pre)
      /\ \A i \in 1..Len(pre) :
           /\ post[i].weekNumber = pre[i].weekNumber
           /\ Len(post[i].days) = Len(pre[i].days)
           /\ \A j \in 1..Len(pre[i].days) :
                IF <<i, j>> \in RefRequestedDays
                THEN RefHoldsModifiedFood(post[i].days[j])
                ELSE post[i].days[j] = pre[i].days[j]

\* The first requested day of the plan is within tolerance of the plan's
\* target macros.
RefAlreadyWithinTolerance ==
  /\ RefRequestedDays # {}
  /\ m_req.plan.targetMacros # <<>>
  /\ LET first == CHOOSE p \in RefRequestedDays :
                    \A q \in RefRequestedDays :
                      p[1] < q[1] \/ (p[1] = q[1] /\ p[2] <= q[2])
     IN  RefWithinTolerance(m_req.plan.weeks[first[1]].days[first[2]],
                            m_req.plan.targetMacros[1])

\* C39: a success after the model was called returns a plan whose replaced
\* day holds the modified food (same id, or same foodItemId) with its
\* quantity, and in which only days numbered as requested differ from the
\* plan of the request; and when the day is already within tolerance the
\* plan of the request is returned as it is and the model is not called.
C39_AsClaimed ==
  m_pc = "done" =>
    /\ (m_ret.success /\ m_invoked > 0) => RefRecalculated
    /\ RefAlreadyWithinTolerance =>
         /\ m_invoked = 0
         /\ m_ret = [status |-> "returned", success |-> TRUE, plan |-> <<m_req.plan>>,
                     error |-> <<>>]

====
